---- MODULE Spec2Model ----
(***************************************************************************)
(* A model of ollama-chat-interface: the JSON session store                *)
(* (services/session_manager.py), the adapter of the Ollama daemon         *)
(* (services/ollama_service.py), the chat handler (ui/chat.py: on_message) *)
(* and the handlers that pull a model (ui/chat.py: on_chat_start,          *)
(* ui/model_management.py: pull_model_ui).                                 *)
(*                                                                         *)
(* Conventions.  A Python Optional is None or Some(v).  A text (a message  *)
(* content, a streamed chunk) is a sequence of tokens, so that string      *)
(* concatenation is \o and the empty string is << >>.  A datetime is a     *)
(* number of clock ticks.  temperature is counted in tenths and top_p in   *)
(* hundredths.                                                             *)
(***************************************************************************)
EXTENDS Integers, Sequences, FiniteSets, TLC

VARIABLES
    store,      \* session_data_dir: session_id -> content of <session_id>.json
    now,        \* the wall clock read by datetime.now()
    last,       \* the last store operation called, its arguments and its outcome
    inp,        \* the arguments drawn for the operation under test
    saves,      \* the calls of save_session in progress, and how far each has got
    stream,     \* one chat_stream generator and what its consumer has seen of it
    sess,       \* cl.user_session and the thread id of the chat session
    lists,      \* the list objects that hold a message history, by identity
    runs,       \* the runs of the on_message handler
    adapter,    \* one call of an adapter operation and what the daemon did for it
    ui,         \* one run of a handler that pulls a model, and what it displayed
    loop        \* the handlers of the process and the thread each daemon wait runs on

chatVars == <<sess, lists, runs>>

adapterVars == <<adapter, ui, loop>>

vars == <<store, now, last, inp, saves, stream, sess, lists, runs, adapter, ui, loop>>

-----------------------------------------------------------------------------
(* Bounds of the model *)

MaxClock == 3
MaxMsgs == 2
MaxFrags == 3
MaxTurns == 2
MaxChunks == 2

-----------------------------------------------------------------------------
(* Python values *)

None == << >>

Some(v) == <<v>>

\* bool(x) of an Optional[str]: None and "" are falsy
TruthyStr(opt) == opt # None /\ opt[1] # << >>

\* bool(x) of an Optional[int]: None and 0 are falsy
TruthyInt(opt) == opt # None /\ opt[1] # 0

SessionIds == {"s1", "s2"}

Models == {"llama3", "mistral"}

Roles == {"user", "assistant", "system"}

\* ModelParameters() with the defaults of its fields
DefaultParameters == [temperature |-> 7, top_p |-> 90, max_tokens |-> None]

ParameterSets == {DefaultParameters, [temperature |-> 5, top_p |-> 100, max_tokens |-> Some(100)]}

SystemPrompts == {None, Some(<<"be brief">>)}

ChatMessage(role, content, timestamp) == [role |-> role, content |-> content, timestamp |-> timestamp]

MessagePool ==
    { ChatMessage("user", <<"a">>, 0), ChatMessage("assistant", <<"b">>, 1),
      ChatMessage("system", <<"a">>, 0), ChatMessage("user", << >>, 1) }

SeqsUpTo(S, n) == UNION { [1..k -> S] : k \in 0..n }

MessageLists == SeqsUpTo(MessagePool, MaxMsgs)

SaveArgs(model_name, messages, parameters, system_prompt) ==
    [model_name |-> model_name, messages |-> messages,
     parameters |-> parameters, system_prompt |-> system_prompt]

\* every combination of arguments save_session can be called with
AllSaveInputs ==
    { SaveArgs(m, ms, p, sp) : m \in Models, ms \in MessageLists,
                               p \in ParameterSets, sp \in SystemPrompts }

\* the argument tuples of the store's state machine: every argument takes two values
SaveInputs ==
    { SaveArgs("llama3", << >>, DefaultParameters, None),
      SaveArgs("llama3", <<ChatMessage("user", <<"a">>, 0)>>, DefaultParameters, None),
      SaveArgs("mistral",
               <<ChatMessage("user", <<"a">>, 0), ChatMessage("assistant", <<"b">>, 1)>>,
               [temperature |-> 5, top_p |-> 100, max_tokens |-> Some(100)],
               Some(<<"be brief">>)) }

-----------------------------------------------------------------------------
(* The session file: absent, a JSON document, or bytes that do not parse *)

Absent == [kind |-> "absent"]

Corrupt == [kind |-> "corrupt"]

JsonFile(doc) == [kind |-> "json", doc |-> doc]

JNull == [t |-> "null"]

JStr(s) == [t |-> "string", v |-> s]

JNum(n) == [t |-> "number", v |-> n]

JOptStr(opt) == IF opt = None THEN JNull ELSE JStr(opt[1])

JOptNum(opt) == IF opt = None THEN JNull ELSE JNum(opt[1])

\* datetime.isoformat()
JDate(dt) == [t |-> "string", v |-> <<"iso8601", dt>>]

FromJOpt(j) == IF j.t = "null" THEN None ELSE Some(j.v)

FromJDate(j) == j.v[2]

model_dump_no_prompt(session) ==
    [session_id |-> JStr(session.session_id),
     model_name |-> JStr(session.model_name),
     messages |-> [i \in 1..Len(session.messages) |->
                     [role |-> JStr(session.messages[i].role),
                      content |-> JStr(session.messages[i].content),
                      timestamp |-> JDate(session.messages[i].timestamp)]],
     parameters |-> [temperature |-> JNum(session.parameters.temperature),
                     top_p |-> JNum(session.parameters.top_p),
                     max_tokens |-> JOptNum(session.parameters.max_tokens)],
     system_prompt |-> JNull,
     created_at |-> JDate(session.created_at),
     updated_at |-> JDate(session.updated_at)]

\* session.model_dump(mode="json"): the JSON document written to the file
model_dump(session) ==
    [session_id |-> JStr(session.session_id),
     model_name |-> JStr(session.model_name),
     messages |-> [i \in 1..Len(session.messages) |->
                     [role |-> JStr(session.messages[i].role),
                      content |-> JStr(session.messages[i].content),
                      timestamp |-> JDate(session.messages[i].timestamp)]],
     parameters |-> [temperature |-> JNum(session.parameters.temperature),
                     top_p |-> JNum(session.parameters.top_p),
                     max_tokens |-> JOptNum(session.parameters.max_tokens)],
     system_prompt |-> JOptStr(session.system_prompt),
     created_at |-> JDate(session.created_at),
     updated_at |-> JDate(session.updated_at)]

\* ChatSession(**data): the session validated from a parsed JSON document
ChatSession(data) ==
    [session_id |-> data.session_id.v,
     model_name |-> data.model_name.v,
     messages |-> [i \in 1..Len(data.messages) |->
                     ChatMessage(data.messages[i].role.v, data.messages[i].content.v,
                                 FromJDate(data.messages[i].timestamp))],
     parameters |-> [temperature |-> data.parameters.temperature.v,
                     top_p |-> data.parameters.top_p.v,
                     max_tokens |-> FromJOpt(data.parameters.max_tokens)],
     system_prompt |-> FromJOpt(data.system_prompt),
     created_at |-> FromJDate(data.created_at),
     updated_at |-> FromJDate(data.updated_at)]

\* whitespace of the texts of the model
Whitespace == {" ", "\n"}

RECURSIVE lstrip(_)

lstrip(text) ==
    IF text # << >> /\ Head(text) \in Whitespace THEN lstrip(Tail(text)) ELSE text

RECURSIVE rstrip(_)

rstrip(text) ==
    IF text # << >> /\ text[Len(text)] \in Whitespace
    THEN rstrip(SubSeq(text, 1, Len(text) - 1)) ELSE text

\* str.strip()
strip(text) == rstrip(lstrip(text))

-----------------------------------------------------------------------------
(* services/session_manager.py *)

\* an operation's way out: a returned value, or an exception that leaves it
Returned(value) == [raised |-> FALSE, result |-> value]

Raised == [raised |-> TRUE, result |-> None]

\* load_session, lines 102-105: open, json.load and ChatSession(**data);
\* any of them can raise (readFault: the open or the read fails)
read_and_parse(file, readFault) ==
    IF readFault \/ file.kind = "corrupt" THEN Raised
    ELSE Returned(Some(ChatSession(file.doc)))

load_except_reraise == Raised

\* load_session, lines 112-114: except Exception: log and return None
load_except == Returned(None)

\* load_session as its caller sees it: the value returned, or an exception
load_session_call(st, session_id, readFault) ==
    IF st[session_id].kind = "absent" THEN Returned(None)
    ELSE LET body == read_and_parse(st[session_id], readFault)
         IN IF body.raised THEN load_except ELSE body

\* load_session: the value it returns, None when the file is absent and None
\* when reading or parsing it raises
load_session(st, session_id, readFault) == load_session_call(st, session_id, readFault).result

created_at_fresh(st, session_id, clk, readFault) == clk

\* save_session, lines 46-57: the created_at of the record about to be written
created_at_for(st, session_id, clk, readFault) ==
    IF st[session_id].kind # "absent"
    THEN LET existing == load_session(st, session_id, readFault)
         IN IF existing # None THEN existing[1].created_at ELSE clk
    ELSE clk

SaveFaults == {"none", "read", "open", "write"}

\* save_session: the store after the call and whether the call raised.
\* clk is the clock at line 47 and clk + d the clock at line 66.
\* fault "read": the read-before-write fails; "open": open() fails and the
\* file is untouched; "write": the write fails after open() truncated the file.
save_session(st, clk, d, session_id, a, fault) ==
    LET session == [session_id |-> session_id,
                    model_name |-> a.model_name,
                    messages |-> a.messages,
                    parameters |-> a.parameters,
                    system_prompt |-> a.system_prompt,
                    created_at |-> created_at_for(st, session_id, clk, fault = "read"),
                    updated_at |-> clk + d]
    IN CASE fault = "open" -> [store |-> st, raised |-> TRUE]
         [] fault = "write" -> [store |-> [st EXCEPT ![session_id] = Corrupt], raised |-> TRUE]
         [] OTHER -> [store |-> [st EXCEPT ![session_id] = JsonFile(model_dump(session))],
                      raised |-> FALSE]

\* delete_session: the store after the call and the value returned
\* (unlinkFault: unlink() raises, which is caught)
delete_unlink_fault_true(st) == [store |-> st, result |-> TRUE, raised |-> FALSE]

\* delete_session, lines 161-163: except Exception: log and return False
delete_except(st) == [store |-> st, result |-> FALSE, raised |-> FALSE]

delete_session(st, session_id, unlinkFault) ==
    IF st[session_id].kind = "absent" THEN [store |-> st, result |-> FALSE, raised |-> FALSE]
    ELSE IF unlinkFault THEN delete_except(st)
    ELSE [store |-> [st EXCEPT ![session_id] = Absent], result |-> TRUE, raised |-> FALSE]

\* list_sessions: the stems of the *.json files of the directory, as a set
\* (glob returns them in an order the file system chooses)
list_sessions(st) == { id \in DOMAIN st : st[id].kind # "absent" }

\* the orders in which glob can return the files
Permutations1(S) ==
    { f \in [1..Cardinality(S) -> S] : \A i, j \in 1..Cardinality(S) : f[i] = f[j] => i = j }

list_sessions_orders(st) == Permutations1(list_sessions(st))

\* str.replace("\n", " ")
replace_newlines(text) == [i \in 1..Len(text) |-> IF text[i] = "\n" THEN " " ELSE text[i]]

\* the default of get_session_preview's max_length
PreviewLength == 50

get_session_preview_last_user(session, max_length) ==
    LET users == { i \in 1..Len(session.messages) : session.messages[i].role = "user" }
    IN IF users = {} THEN <<session.session_id>>
       ELSE LET final == CHOOSE i \in users : \A j \in users : i >= j
                preview == replace_newlines(strip(session.messages[final].content))
            IN IF Len(preview) > max_length
               THEN SubSeq(preview, 1, max_length) \o <<"...">>
               ELSE preview

\* get_session_preview: from the first user message, else the session id
get_session_preview(session, max_length) ==
    LET users == { i \in 1..Len(session.messages) : session.messages[i].role = "user" }
    IN IF users = {} THEN <<session.session_id>>
       ELSE LET first == CHOOSE i \in users : \A j \in users : i <= j
                preview == replace_newlines(strip(session.messages[first].content))
            IN IF Len(preview) > max_length
               THEN SubSeq(preview, 1, max_length) \o <<"...">>
               ELSE preview

not_loaded_break(rest) == << >>

\* list_sessions_detailed, lines 211-212 and 227-229: a session that did not
\* load adds no entry, and the loop goes on with the next id
not_loaded(rest) == rest

\* list_sessions_detailed, lines 211-229: the entries in the order of ids;
\* unreadable marks the ids whose read fails
RECURSIVE detailed_entries(_, _, _)
detailed_entries(st, ids, unreadable) ==
    IF ids = << >> THEN << >>
    ELSE LET session == load_session(st, Head(ids), Head(ids) \in unreadable)
             rest == detailed_entries(st, Tail(ids), unreadable)
         IN IF session # None
            THEN <<[session_id |-> Head(ids),
                    preview |-> get_session_preview(session[1], PreviewLength),
                    message_count |-> Len(session[1].messages),
                    model |-> session[1].model_name,
                    created_at |-> session[1].created_at,
                    updated_at |-> session[1].updated_at]>> \o rest
            ELSE not_loaded(rest)

\* list.sort(key=updated_at, reverse=True): a stable insertion of each entry
\* before the first entry with a smaller key
RECURSIVE sort_updated_desc(_)
sort_updated_desc(entries) ==
    IF entries = << >> THEN << >>
    ELSE LET n == Len(entries)
             sorted == sort_updated_desc(SubSeq(entries, 1, n - 1))
             e == entries[n]
             after == { i \in 1..Len(sorted) : sorted[i].updated_at < e.updated_at }
             k == IF after = {} THEN Len(sorted) + 1
                  ELSE CHOOSE i \in after : \A j \in after : i <= j
         IN SubSeq(sorted, 1, k - 1) \o <<e>> \o SubSeq(sorted, k, Len(sorted))

sort_unsorted(entries) == entries

\* line 232
sort_detailed(entries) == sort_updated_desc(entries)

\* list_sessions_detailed, for the order ids in which list_sessions gave the ids
list_sessions_detailed(st, ids, unreadable) == sort_detailed(detailed_entries(st, ids, unreadable))

\* the clock ticks in one second of the wall clock
TicksPerSecond == 2

\* strftime("%Y-%m-%d_%H-%M-%S"): the reading of the clock down to its second
strftime_seconds(clk) == clk \div TicksPerSecond

\* generate_session_id, line 245
generate_session_id(clk) == strftime_seconds(clk)

session_path_shared(session_id) == "s1"

\* save_session, line 43: the file of a session, named after its session_id
session_path(session_id) == session_id

\* the callers that can be inside save_session at the same time
Savers == {"A", "B"}

\* a caller that is not inside save_session
NoSave ==
    [pc |-> "idle", session_id |-> "", args |-> SaveArgs("", << >>, DefaultParameters, None),
     fault |-> "none", before |-> Absent, clk |-> 0, created_at |-> 0, updated_at |-> 0]

NoSaves == [h \in Savers |-> NoSave]

\* the ChatSession of lines 59-67, built by a call that has read both clocks
session_of(save) ==
    [session_id |-> save.session_id,
     model_name |-> save.args.model_name,
     messages |-> save.args.messages,
     parameters |-> save.args.parameters,
     system_prompt |-> save.args.system_prompt,
     created_at |-> save.created_at,
     updated_at |-> save.updated_at]

\* save_session, lines 42-57: the call starts, reads the clock and the
\* existing record of its session_id
save_begin(st, clk, session_id, a, fault) ==
    [pc |-> "read", session_id |-> session_id, args |-> a, fault |-> fault,
     before |-> st[session_path(session_id)], clk |-> clk,
     created_at |-> created_at_for(st, session_path(session_id), clk, fault = "read"),
     updated_at |-> 0]

\* save_session, lines 59-67: the clock is read again for updated_at
save_build(save, clk) == [save EXCEPT !.pc = "built", !.updated_at = clk]

\* save_session, line 74: open(session_path, "w") creates or empties the file
save_open(st, save) ==
    IF save.fault = "open" THEN [store |-> st, save |-> [save EXCEPT !.pc = "raised"]]
    ELSE [store |-> [st EXCEPT ![session_path(save.session_id)] = Corrupt],
          save |-> [save EXCEPT !.pc = "opened"]]

\* save_session, lines 75-79: json.dump writes the document, or fails and
\* the exception is raised again
save_write(st, save) ==
    IF save.fault = "write" THEN [store |-> st, save |-> [save EXCEPT !.pc = "raised"]]
    ELSE [store |-> [st EXCEPT ![session_path(save.session_id)] =
                                   JsonFile(model_dump(session_of(save)))],
          save |-> [save EXCEPT !.pc = "done"]]

-----------------------------------------------------------------------------
(* services/ollama_service.py: chat_stream *)

\* What the daemon's stream delivers to the loop of line 73: fragments, then
\* the end of the stream or an exception.
Fragment(message) == [kind |-> "fragment", chunk |-> [message |-> message]]

TextFragment(text) == Fragment(Some([content |-> Some(text)]))

ChunkTexts == {<<"x">>, <<"y">>}

TextFragments == { TextFragment(c) : c \in ChunkTexts }

\* {"message": {"content": ""}}, {"message": {}} and {}
EmptyFragments ==
    { Fragment(Some([content |-> Some(<< >>)])), Fragment(Some([content |-> None])),
      Fragment(None) }

StreamEnd == [kind |-> "end"]

\* no exception came from the daemon
NoFailure == [kind |-> "none"]

DaemonError(class, text) == [kind |-> "error", class |-> class, str |-> text]

CapabilityMismatch == DaemonError("ResponseError", <<"\"m\" ", "does not support chat">>)

DaemonErrors ==
    { CapabilityMismatch,
      DaemonError("ResponseError", <<"model not found">>),
      DaemonError("ConnectionError", <<"connection refused">>),
      DaemonError("RuntimeError", <<"model not found">>) }

\* "does not support chat" in str(e)
Contains(text, token) == \E i \in 1..Len(text) : text[i] = token

\* the explanatory chunk of lines 87-95
EmbeddingModelText(model) == <<"The model ", model, " is an embedding model">>

\* f"**Error:** {str(e)}"
ErrorText(text) == <<"**Error:** ">> \o text

OllamaNotRunningText == <<"Ollama is not running. Start it with: ollama serve">>

Yield(chunk, g) == [kind |-> "yield", chunk |-> chunk, g |-> g]

Return == [kind |-> "return", chunk |-> << >>, g |-> "closed"]

RaiseOllamaNotRunning == [kind |-> "raise", chunk |-> OllamaNotRunningText, g |-> "closed"]

Blocked == [kind |-> "blocked", chunk |-> << >>, g |-> "loop"]

\* line 75: chunk.get("message", {}).get("content", "")
content_of(chunk) ==
    IF chunk.message = None THEN << >>
    ELSE IF chunk.message[1].content = None THEN << >>
    ELSE chunk.message[1].content[1]

yields_any(content) == TRUE

\* line 76: if content
yields(content) == content # << >>

except_all_yield(e, model) == Yield(ErrorText(e.str), "handled")

except_mismatch_as_error(e, model) ==
    IF e.class = "ConnectionError" THEN RaiseOllamaNotRunning
    ELSE Yield(ErrorText(e.str), "handled")

\* lines 84-107: the except clauses of chat_stream
except_clauses(e, model) ==
    IF e.class = "ResponseError"
    THEN IF Contains(e.str, "does not support chat")
         THEN Yield(EmbeddingModelText(model), "handled")
         ELSE Yield(ErrorText(e.str), "handled")
    ELSE IF e.class = "ConnectionError" THEN RaiseOllamaNotRunning
    ELSE Yield(ErrorText(e.str), "handled")

RECURSIVE for_chunk(_, _)

\* lines 73-82 and the except clauses: the loop from the point where it takes
\* the next event of the daemon's stream, up to its next yield, its return
\* or its raise; Blocked when the events run out before that
for_chunk(events, model) ==
    IF events = << >> THEN Blocked
    ELSE LET ev == Head(events)
         IN CASE ev.kind = "fragment" ->
                    IF yields(content_of(ev.chunk))
                    THEN Yield(content_of(ev.chunk), "loop")
                    ELSE for_chunk(Tail(events), model)
              [] ev.kind = "end" -> Return
              [] OTHER -> except_clauses(ev, model)

chat_options_zero(params) ==
    [temperature |-> params.temperature, top_p |-> params.top_p,
     num_predict |-> IF TruthyInt(params.max_tokens) THEN params.max_tokens[1] ELSE 0]

\* lines 57-65: the options dict; it has the key num_predict only when
\* params.max_tokens is truthy
chat_options(params) ==
    IF TruthyInt(params.max_tokens)
    THEN [temperature |-> params.temperature, top_p |-> params.top_p,
          num_predict |-> params.max_tokens[1]]
    ELSE [temperature |-> params.temperature, top_p |-> params.top_p]

\* line 73: the request of ollama.chat
chat_request(messages, model, params) ==
    [model |-> model, messages |-> messages, stream |-> TRUE, options |-> chat_options(params)]

\* The generator object chat_stream(messages, model, params): g is where it
\* is suspended: "new" before its first step, "loop" at the yield of line 80,
\* "handled" at a yield of an except clause, "closed" once it returned or raised.
Generator(messages, model, params) ==
    [g |-> "new", messages |-> messages, model |-> model, params |-> params]

\* one __anext__(): the daemon then delivers `events`
chat_stream_next(gen, events) ==
    IF gen.g \in {"new", "loop"} THEN for_chunk(events, gen.model) ELSE Return

\* the event sequences one __anext__() can consume when at most n more
\* fragments are delivered: fragments without text, then a fragment with
\* text, the end of the stream or an error
Bursts(n) ==
    { e \o <<t>> : e \in SeqsUpTo(EmptyFragments, n),
                   t \in TextFragments \cup {StreamEnd} \cup DaemonErrors }

FragmentsIn(events) == Len(SelectSeq(events, LAMBDA ev : ev.kind = "fragment"))

BurstsFor(gen, delivered) ==
    IF gen.g \in {"new", "loop"}
    THEN { b \in Bursts(MaxFrags - FragmentsIn(delivered)) :
              FragmentsIn(delivered) + FragmentsIn(b) <= MaxFrags }
    ELSE { << >> }

NoStream ==
    [gen |-> [g |-> "none", messages |-> << >>, model |-> "", params |-> DefaultParameters],
     delivered |-> << >>, yielded |-> << >>, result |-> "idle", raised |-> << >>,
     request |-> None]

-----------------------------------------------------------------------------
(* services/ollama_service.py: list_local_models, pull_model,              *)
(* pull_model_with_progress and delete_model                               *)

MaxUpdates == 2

\* what the daemon answers to one request that is not a stream
Ok(value) == [kind |-> "ok", value |-> value]

\* the exceptions a list, pull or delete request ends with
RequestErrors ==
    { DaemonError("ConnectionError", <<"connection refused">>),
      DaemonError("ResponseError", <<"model not found">>) }

\* how a call ends: the value returned or the exception raised, and the
\* number of requests it sent to the daemon
ReturnValue(value, requests) ==
    [end |-> "returned", exc |-> "", text |-> << >>, value |-> value, requests |-> requests]

RaiseNotRunning(requests) ==
    [end |-> "raised", exc |-> "OllamaNotRunningError", text |-> OllamaNotRunningText,
     value |-> None, requests |-> requests]

Reraise(e, requests) ==
    [end |-> "raised", exc |-> e.class, text |-> e.str, value |-> None, requests |-> requests]

\* a record of ollama.list(): the attributes model and name (None: no such
\* attribute), size, modified_at, digest and details
ListRecord(model, name, family) ==
    [attrs |-> TRUE, model |-> model, name |-> name, size |-> Some(1), modified_at |-> None,
     digest |-> Some("d"), details |-> family]

\* a record of ollama.list() that is a mapping: its fields are keys, and
\* hasattr and getattr find none of them
MappingRecord(model, name, family) == [ListRecord(model, name, family) EXCEPT !.attrs = FALSE]

ListRecords ==
    { ListRecord(Some("llama3"), None, Some([family |-> Some("llama")])),
      ListRecord(Some(""), Some("mistral"), None),
      ListRecord(None, None, None),
      MappingRecord(None, Some("llama3"), Some([family |-> Some("llama")])) }

ListResponses == SeqsUpTo(ListRecords, 2)

\* bool(x) of an attribute that holds a str
TruthyName(opt) == opt # None /\ opt[1] # ""

\* lines 141-159: the ModelInfo of one record
ModelInfo(m) ==
    IF m.attrs
    THEN [name |-> IF TruthyName(m.model) THEN m.model[1]
                   ELSE IF TruthyName(m.name) THEN m.name[1]
                   ELSE "str(m)",
          size |-> m.size, modified_at |-> m.modified_at, digest |-> m.digest,
          family |-> IF m.details = None THEN None ELSE m.details[1].family]
    ELSE [name |-> "str(m)", size |-> None, modified_at |-> None, digest |-> None,
          family |-> None]

\* list_local_models: answers are the daemon's answers to successive requests
list_local_models(answers) ==
    LET a == Head(answers)
    IN IF a.kind = "ok"
       THEN ReturnValue(Some([i \in 1..Len(a.value) |-> ModelInfo(a.value[i])]), 1)
       ELSE IF a.class = "ConnectionError" THEN RaiseNotRunning(1)
       ELSE Reraise(a, 1)

pull_model_retry(name, answers) ==
    LET a == Head(answers)
        b == answers[2]
    IN IF a.kind = "ok" THEN ReturnValue(None, 1)
       ELSE IF a.class # "ConnectionError" THEN Reraise(a, 1)
       ELSE IF b.kind = "ok" THEN ReturnValue(None, 2)
       ELSE IF b.class = "ConnectionError" THEN RaiseNotRunning(2)
       ELSE Reraise(b, 2)

\* pull_model: one ollama.pull(name) on a worker thread
pull_model(name, answers) ==
    LET a == Head(answers)
    IN IF a.kind = "ok" THEN ReturnValue(None, 1)
       ELSE IF a.class = "ConnectionError" THEN RaiseNotRunning(1)
       ELSE Reraise(a, 1)

delete_model_reraise(name, answers) ==
    LET a == Head(answers)
    IN IF a.kind = "ok" THEN ReturnValue(None, 1) ELSE Reraise(a, 1)

\* delete_model: one ollama.delete(name)
delete_model(name, answers) ==
    LET a == Head(answers)
    IN IF a.kind = "ok" THEN ReturnValue(None, 1)
       ELSE IF a.class = "ConnectionError" THEN RaiseNotRunning(1)
       ELSE Reraise(a, 1)

\* a progress dict of ollama.pull(name, stream=True)
Progress(status, completed, total) == [status |-> status, completed |-> completed, total |-> total]

ProgressUpdates ==
    { Progress("pulling", Some(1), Some(2)), Progress("success", None, None) }

Update(progress) == [kind |-> "update", progress |-> progress]

\* what the daemon's stream delivers for one streaming pull: updates, then
\* the end of the stream or an exception
PullScripts ==
    { u \o <<t>> : u \in SeqsUpTo({ Update(q) : q \in ProgressUpdates }, MaxUpdates),
                   t \in {StreamEnd} \cup RequestErrors }

\* one step of a generator: what it does and the events it left to the daemon
Step(kind, value, rest, exc) == [kind |-> kind, value |-> value, rest |-> rest, exc |-> exc]

for_progress_latest(script) ==
    IF Len(script) >= 2 /\ script[1].kind = "update" /\ script[2].kind = "update"
    THEN Step("yield", Some(script[2].progress), Tail(Tail(script)), "")
    ELSE IF script[1].kind = "update"
    THEN Step("yield", Some(script[1].progress), Tail(script), "")
    ELSE IF script[1].kind = "end" THEN Step("return", None, Tail(script), "")
    ELSE IF script[1].class = "ConnectionError"
    THEN Step("raise", None, Tail(script), "OllamaNotRunningError")
    ELSE Step("raise", None, Tail(script), script[1].class)

\* pull_model_with_progress, lines 233-244: one __anext__() of the
\* generator, which takes the next event of the daemon's stream
for_progress(script) ==
    LET ev == Head(script)
    IN CASE ev.kind = "update" -> Step("yield", Some(ev.progress), Tail(script), "")
         [] ev.kind = "end" -> Step("return", None, Tail(script), "")
         [] OTHER -> IF ev.class = "ConnectionError"
                     THEN Step("raise", None, Tail(script), "OllamaNotRunningError")
                     ELSE Step("raise", None, Tail(script), ev.class)

\* no adapter operation has been called
NoAdapterCall ==
    [op |-> "none", pc |-> "idle", gen |-> [g |-> "none"], daemon |-> << >>, requests |-> 0,
     taken |-> << >>, yielded |-> << >>, failure |-> NoFailure, exc |-> "", value |-> None]

-----------------------------------------------------------------------------
(* services/model_manager.py: filter_models, and the part of Python's re   *)
(* it relies on.  A pattern and a model name are sequences of characters;  *)
(* the regular expressions are those made of literal characters, the dot,  *)
(* the star, character sets in brackets and one repetition count.          *)

\* a repetition count of 2^32, the MAXREPEAT of the interpreter, as one token
BigRepeat == "{4294967296}"

\* the characters a token of a pattern stands for
TokenChars(t) == IF t = BigRepeat THEN {"{", "4", "2", "9", "6", "7", "}"} ELSE {t}

\* str.lower() of one token of a text: the characters and the words of the
\* model that have upper-case letters
lower(c) ==
    CASE c = "G" -> "g" [] c = "P" -> "p" [] c = "T" -> "t"
      [] c = "/QUIT" -> "/quit" [] c = "/Models" -> "/models" [] c = "/System" -> "/system"
      [] c = "PULL" -> "pull" [] OTHER -> c

lower_identity(c) == c

\* re.IGNORECASE, line 73: characters are compared without regard to case
casefold(c) == lower(c)

Atom(kind, chars) == [kind |-> kind, chars |-> chars, star |-> FALSE]

Compiled(atoms) == [exc |-> "", atoms |-> atoms]

CompileError(exc) == [exc |-> exc, atoms |-> << >>]

\* re.compile, reading the pattern from position i with atoms parsed so far:
\* re.error for a star with nothing to repeat, for a star after a star and
\* for a character set that is not closed; OverflowError for a repetition
\* count of MAXREPEAT or more
RECURSIVE parse(_, _, _)
parse(pattern, i, atoms) ==
    IF i > Len(pattern) THEN Compiled(atoms)
    ELSE LET c == pattern[i]
         IN CASE c = "*" ->
                   IF atoms = << >> \/ atoms[Len(atoms)].star THEN CompileError("re.error")
                   ELSE parse(pattern, i + 1, [atoms EXCEPT ![Len(atoms)].star = TRUE])
              [] c = BigRepeat -> CompileError("OverflowError")
              [] c = "[" ->
                   LET closing == { j \in (i + 2)..Len(pattern) : pattern[j] = "]" }
                   IN IF closing = {} THEN CompileError("re.error")
                      ELSE LET j == CHOOSE k \in closing : \A l \in closing : k <= l
                           IN parse(pattern, j + 1,
                                    Append(atoms,
                                           Atom("set", UNION { TokenChars(pattern[k]) :
                                                                 k \in (i + 1)..(j - 1) })))
              [] c = "." -> parse(pattern, i + 1, Append(atoms, Atom("any", {})))
              [] OTHER -> parse(pattern, i + 1, Append(atoms, Atom("literal", {c})))

re_compile(pattern) == parse(pattern, 1, << >>)

atom_matches(atom, c) ==
    atom.kind = "any" \/ \E m \in atom.chars : casefold(m) = casefold(c)

\* the atoms from the i-th on match the text from position j on
RECURSIVE match_here(_, _, _, _)
match_here(atoms, i, text, j) ==
    IF i > Len(atoms) THEN TRUE
    ELSE IF atoms[i].star
         THEN \/ match_here(atoms, i + 1, text, j)
              \/ /\ j <= Len(text)
                 /\ atom_matches(atoms[i], text[j])
                 /\ match_here(atoms, i, text, j + 1)
         ELSE /\ j <= Len(text)
              /\ atom_matches(atoms[i], text[j])
              /\ match_here(atoms, i + 1, text, j + 1)

\* regex.search(text): a match that starts anywhere in the text
re_search(atoms, text) == \E j \in 1..(Len(text) + 1) : match_here(atoms, 1, text, j)

RECURSIVE select_matching(_, _)
select_matching(models, atoms) ==
    IF models = << >> THEN << >>
    ELSE (IF re_search(atoms, Head(models).name) THEN <<Head(models)>> ELSE << >>)
             \o select_matching(Tail(models), atoms)

\* filter_models, line 76: the list comprehension
filtered_of(models, atoms) == select_matching(models, atoms)

\* filter_models: the list returned, or the exception that leaves the call
filter_models(models, pattern) ==
    IF pattern = << >> THEN Returned(models)
    ELSE LET regex == re_compile(pattern)
         IN CASE regex.exc = "" -> Returned(filtered_of(models, regex.atoms))
              [] regex.exc = "re.error" -> Returned(models)
              [] OTHER -> Raised

-----------------------------------------------------------------------------
(* ui/settings.py and ui/chat.py *)

\* ModelParameters(...): the Field constraints of models/schemas.py
ModelParametersValid(temperature, top_p, max_tokens) ==
    /\ 0 <= temperature /\ temperature <= 20
    /\ 0 <= top_p /\ top_p <= 100
    /\ (max_tokens = None \/ max_tokens[1] >= 1)

Clamp(v, lo, hi) == IF v < lo THEN lo ELSE IF v > hi THEN hi ELSE v

ModelParameters_clamped(temperature, top_p, max_tokens) ==
    Returned([temperature |-> Clamp(temperature, 0, 20), top_p |-> Clamp(top_p, 0, 100),
              max_tokens |-> IF max_tokens # None /\ max_tokens[1] < 1 THEN Some(1)
                             ELSE max_tokens])

\* ModelParameters(temperature=..., top_p=..., max_tokens=...): the object
\* with the values given, or the ValidationError of a violated constraint
ModelParameters(temperature, top_p, max_tokens) ==
    IF ModelParametersValid(temperature, top_p, max_tokens)
    THEN Returned([temperature |-> temperature, top_p |-> top_p, max_tokens |-> max_tokens])
    ELSE Raised

on_settings_update_keeping_zero(s, settings) ==
    [s EXCEPT !.parameters =
         [temperature |-> IF settings.temperature = None THEN 7 ELSE settings.temperature[1],
          top_p |-> IF settings.top_p = None THEN 90 ELSE settings.top_p[1],
          max_tokens |-> settings.max_tokens]]

\* on_settings_update: the session after the handler ran with the settings
\* dict; a key the dict does not hold is None.  The session is unchanged
\* when ModelParameters(...) raises.
on_settings_update(s, settings) ==
    LET max_tokens_value == IF settings.max_tokens = Some(0) THEN None
                            ELSE settings.max_tokens
        temperature == IF settings.temperature = None THEN 7 ELSE settings.temperature[1]
        top_p == IF settings.top_p = None THEN 90 ELSE settings.top_p[1]
        system_prompt == IF settings.system_prompt = None THEN << >>
                         ELSE strip(settings.system_prompt[1])
    IN IF ~ModelParametersValid(temperature, top_p, max_tokens_value) THEN s
       ELSE [s EXCEPT !.parameters = [temperature |-> temperature, top_p |-> top_p,
                                      max_tokens |-> max_tokens_value],
                      !.system_prompt =
                          IF settings.system_prompt = None THEN s.system_prompt
                          ELSE IF system_prompt # << >> THEN Some(system_prompt) ELSE None]

ProviderMessage(role, content) == [role |-> role, content |-> content]

build_messages_history_last(system_prompt, history, content) ==
    (IF TruthyStr(system_prompt) THEN <<ProviderMessage("system", system_prompt[1])>>
     ELSE << >>)
    \o <<ProviderMessage("user", content)>>
    \o [i \in 1..Len(history) |-> ProviderMessage(history[i].role, history[i].content)]

\* on_message, lines 295-309: the provider-format message list
build_messages(system_prompt, history, content) ==
    (IF TruthyStr(system_prompt) THEN <<ProviderMessage("system", system_prompt[1])>>
     ELSE << >>)
    \o [i \in 1..Len(history) |-> ProviderMessage(history[i].role, history[i].content)]
    \o <<ProviderMessage("user", content)>>

\* on_regenerate_action, lines 39-41: the history without its last entry
\* when that is the assistant's
without_last_answer(history) ==
    IF history # << >> /\ history[Len(history)].role = "assistant"
    THEN SubSeq(history, 1, Len(history) - 1) ELSE history

\* on_regenerate_action, lines 44-49: the provider-format message list
regenerate_messages(system_prompt, history) ==
    (IF TruthyStr(system_prompt) THEN <<ProviderMessage("system", system_prompt[1])>>
     ELSE << >>)
    \o [i \in 1..Len(history) |-> ProviderMessage(history[i].role, history[i].content)]

\* the handler runs that can be in progress in one session
Runs == {1, 2}

\* list 0 is the list on_chat_start stores; list r is the list that run r
\* creates at line 292 when the session's list is empty
ListIds == {0} \cup Runs

IdleRun ==
    [pc |-> "idle", content |-> << >>, model |-> "", params |-> DefaultParameters,
     system_prompt |-> None, history |-> 0,
     gen |-> [g |-> "none", messages |-> << >>, model |-> "", params |-> DefaultParameters],
     out |-> << >>, received |-> << >>, failure |-> [kind |-> "none"], partial |-> << >>,
     outcome |-> "none", saved |-> "none", request |-> None]

\* lines 288-313 and 320: the run of on_message suspended at its first
\* await, with the locals it read from the session of list id h
on_message_start(s, ls, h, content) ==
    [IdleRun EXCEPT !.pc = "streaming", !.content = content, !.model = s.model,
                    !.params = s.parameters, !.system_prompt = s.system_prompt,
                    !.history = h,
                    !.gen = Generator(build_messages(s.system_prompt, ls[s.messages], content),
                                      s.model, s.parameters)]

\* lines 328-337: msg_out.content after chat_stream raised
stream_raised_display(out, text) == ErrorText(text)

autosave_failed_display_error(out) == ErrorText(<<"save failed">>)

\* lines 365-367: msg_out.content after the auto-save raised
autosave_failed_display(out) == out

chat_messages_user_only(history, clk) ==
    LET turns == SelectSeq(history, LAMBDA h : h.role = "user")
    IN [i \in 1..Len(turns) |-> ChatMessage(turns[i].role, turns[i].content, clk)]

\* lines 351-354: the history as ChatMessage objects, constructed at clock clk
chat_messages(history, clk) ==
    [i \in 1..Len(history) |-> ChatMessage(history[i].role, history[i].content, clk)]

NoSession ==
    [model |-> "", parameters |-> DefaultParameters, system_prompt |-> None,
     messages |-> 0, thread_id |-> None]

ChatIdle ==
    /\ sess = NoSession
    /\ lists = [l \in ListIds |-> << >>]
    /\ runs = [r \in Runs |-> IdleRun]

-----------------------------------------------------------------------------
(* ui/chat.py: the auto-download of on_chat_start; ui/model_management.py: *)
(* pull_model_ui; the threads the daemon waits of the adapter run on       *)

\* the width of the progress bar
bar_length == 20

\* the hundredths n up to 200 for which the double nearest to n / 100,
\* multiplied by 100 in double precision, is below n (0.29 * 100 is
\* 28.999999999999996)
RoundsBelow == {29, 57, 58, 113, 114, 115, 116}

\* int((completed / total) * 100) in double precision, for total in
\* {1, 2, 100, 5000} and completed up to twice the total: the division by 1
\* or 2 and the product after it are exact, and a quotient that is not a
\* whole number of hundredths is further from one than the rounding error
float_percentage(completed, total) ==
    LET exact == (completed * 100) \div total
    IN IF (completed * 100) % total = 0 /\ total \notin {1, 2} /\ exact \in RoundsBelow
       THEN exact - 1 ELSE exact

\* chat.py lines 141-149: the percentage of one progress snapshot
percentage_of(progress) ==
    LET completed == IF TruthyInt(progress.completed) THEN progress.completed[1] ELSE 0
        total == IF TruthyInt(progress.total) THEN progress.total[1] ELSE 1
    IN IF total > 0 THEN float_percentage(completed, total) ELSE 0

\* chat.py line 153: int(bar_length * percentage / 100); the quotient of
\* 20 * percentage by 100 is a whole number or at least a fifth away from one
filled_of(percentage) == (bar_length * percentage) \div 100

\* str * n: n copies, none when n is negative
Repeat(cell, n) == [i \in 1..n |-> cell]

\* chat.py line 154: the cells of the bar
bar_of(percentage) ==
    Repeat("full", filled_of(percentage)) \o Repeat("empty", bar_length - filled_of(percentage))

\* what the download message shows
Shown(kind, percentage, filled, status) ==
    [kind |-> kind, percentage |-> percentage, filled |-> filled, status |-> status]

\* chat.py lines 134-135 and model_management.py lines 252-257
ShownRequested == Shown("requested", 0, 0, "")

\* chat.py lines 139-177: the message shown for one progress update
on_progress(progress, last_status) ==
    Shown("progress", percentage_of(progress), filled_of(percentage_of(progress)),
          IF progress.status # "" /\ progress.status # last_status THEN progress.status ELSE "")

\* chat.py lines 172-174
next_last_status(progress, last_status) ==
    IF progress.status # "" /\ progress.status # last_status THEN progress.status ELSE last_status

on_pull_end_complete_first(raised) ==
    IF raised THEN <<Shown("complete", 0, 0, ""), Shown("failed", 0, 0, "")>>
    ELSE <<Shown("complete", 0, 0, "")>>

\* chat.py lines 179-197 and model_management.py lines 265-287: what the
\* handler shows when the pull returned or raised
on_pull_end(raised) ==
    IF raised THEN <<Shown("failed", 0, 0, "")>> ELSE <<Shown("complete", 0, 0, "")>>

\* no handler is pulling a model
NoPull == [handler |-> "none", pc |-> "idle", model |-> "", shown |-> << >>, last_status |-> ""]

\* a message the user sees
Message(kind) == Shown(kind, 0, 0, "")

\* the handlers of the user interface that call an operation of the adapter
\* (on_delete_model_action: once the user has confirmed the deletion)
UIHandlers ==
    {"on_chat_start", "on_message", "on_regenerate_action", "list_local_models_ui",
     "pull_model_ui", "delete_model_ui", "search_models_ui", "on_manage_models_action",
     "on_delete_model_action", "chat_profiles"}

\* the adapter operation a handler calls first
first_op(handler) ==
    CASE handler \in {"on_message", "on_regenerate_action"} -> "chat_stream"
      [] handler = "pull_model_ui" -> "pull_model"
      [] handler = "on_delete_model_action" -> "delete_model"
      [] OTHER -> "list_local_models"

handler_excepts_response_only(handler) == {"ResponseError"}

\* the classes named by the except clauses of the try around the calls:
\* chat.py 211, 328-333; actions.py 61; model_management.py 175, 273-277,
\* 324-327, 375; model_management_button.py 97-104, 168-174;
\* chat_profiles.py 80-91
handler_excepts(handler) ==
    CASE handler \in {"on_chat_start", "list_local_models_ui"} -> {"OllamaNotRunningError"}
      [] handler \in {"on_regenerate_action", "search_models_ui"} -> {"Exception"}
      [] OTHER -> {"OllamaNotRunningError", "Exception"}

\* an except clause of the handler takes the exception
caught(handler, exc) == "Exception" \in handler_excepts(handler) \/ exc \in handler_excepts(handler)

\* one call of an adapter operation by a handler, the daemon giving answer;
\* chat_stream is consumed to its end
call_of(op, name, answer) ==
    CASE op = "list_local_models" -> list_local_models(<<answer>>)
      [] op = "pull_model" -> pull_model(name, <<answer>>)
      [] op = "delete_model" -> delete_model(name, <<answer>>)
      [] OTHER -> IF for_chunk(<<answer>>, name).kind = "raise" THEN RaiseNotRunning(1)
                  ELSE ReturnValue(None, 1)

\* the names of the models of a list returned by list_local_models
model_names(value) == { value[1][i].name : i \in 1..Len(value[1]) }

\* how a run of a handler ends: the messages shown, whether an exception
\* left the handler, the last adapter call and the number of calls
Ended(shown, end, op, r, calls) ==
    [shown |-> shown, end |-> end, op |-> op, exc |-> r.exc, calls |-> calls, pull |-> FALSE]

\* a handler after an adapter call raised: its except clause shows a
\* message, or the exception leaves the handler
on_raised(handler, op, r, calls) ==
    IF caught(handler, r.exc)
    THEN Ended(<<Message(IF r.exc = "OllamaNotRunningError" THEN "not_running" ELSE "error")>>,
               "done", op, r, calls)
    ELSE Ended(<< >>, "escaped", op, r, calls)

\* a run of a handler other than on_chat_start, the daemon giving
\* answers[i] to the i-th call
handler_run(handler, name, answers) ==
    LET r1 == call_of(first_op(handler), name, answers[1])
    IN IF r1.end = "raised" THEN on_raised(handler, first_op(handler), r1, 1)
       ELSE IF handler # "delete_model_ui" THEN Ended(<<Message("ok")>>, "done", first_op(handler), r1, 1)
       ELSE IF name \notin model_names(r1.value)
       THEN Ended(<<Message("not_found")>>, "done", "list_local_models", r1, 1)
       ELSE LET r2 == call_of("delete_model", name, answers[2])
            IN IF r2.end = "raised" THEN on_raised(handler, "delete_model", r2, 2)
               ELSE Ended(<<Message("ok")>>, "done", "delete_model", r2, 2)

pull_when_missing(selected_model, names) == selected_model \notin names

\* on_chat_start, lines 96-97 and 199: the model is pulled when the list of
\* names is not empty and the selected model is not in it
pull_when(selected_model, names) == names # {} /\ selected_model \notin names

\* on_chat_start, lines 91-222: from the listing of the local models to the
\* welcome message, or to the start of the download
on_chat_start_listed(selected_model, answer) ==
    LET r == call_of("list_local_models", selected_model, answer)
    IN IF r.end = "raised" THEN on_raised("on_chat_start", "list_local_models", r, 1)
       ELSE IF pull_when(selected_model, model_names(r.value))
       THEN [Ended(<<Message("downloading"), ShownRequested>>, "requested",
                   "list_local_models", r, 1) EXCEPT !.pull = TRUE]
       ELSE IF model_names(r.value) = {}
       THEN Ended(<<Message("no_models")>>, "done", "list_local_models", r, 1)
       ELSE Ended(<<Message("welcome")>>, "done", "list_local_models", r, 1)

\* the handlers of two sessions of the process
Handlers == {"A", "B"}

MaxWaits == 2

\* the thread on which the adapter waits for the daemon:
\* chat_stream iterates ollama.chat on the caller's thread (line 73);
\* pull_model awaits asyncio.to_thread (line 192); pull_model_with_progress
\* opens the stream with asyncio.to_thread (line 230) and iterates it on the
\* caller's thread (line 233)
wait_thread(op, point) ==
    CASE op = "chat_stream" -> "loop"
      [] op = "pull_model" -> "worker"
      [] op = "pull_model_with_progress" -> IF point = "open" THEN "worker" ELSE "loop"

\* the first daemon wait of an operation
first_point(op) ==
    CASE op = "chat_stream" -> "next"
      [] op = "pull_model" -> "pull"
      [] op = "pull_model_with_progress" -> "open"

NoHandler == [op |-> "none", pc |-> "idle", point |-> "", thread |-> "none", waits |-> 0]

AdapterIdle ==
    /\ adapter = NoAdapterCall
    /\ ui = NoPull
    /\ loop = [h \in Handlers |-> NoHandler]

-----------------------------------------------------------------------------
(* The store's state machine *)

NoArgs == SaveArgs("", << >>, DefaultParameters, None)

NoCall == [op |-> "none", id |-> "", fault |-> "none", raised |-> FALSE, result |-> None]

InitStore ==
    /\ store = [id \in SessionIds |-> Absent]
    /\ now = 0
    /\ last = NoCall

Tick ==
    /\ now < MaxClock
    /\ now' = now + 1
    /\ UNCHANGED <<store, last, inp, saves, adapterVars, stream, chatVars>>

SaveWith(session_id, a, fault, d) ==
    LET r == save_session(store, now, d, session_id, a, fault)
    IN /\ now + d <= MaxClock
       /\ store' = r.store
       /\ now' = now + d
       /\ last' = [op |-> "save", id |-> session_id, fault |-> fault,
                   raised |-> r.raised, result |-> None]

Save ==
    /\ \E session_id \in SessionIds, a \in SaveInputs, fault \in SaveFaults, d \in {0, 1} :
          SaveWith(session_id, a, fault, d)
    /\ UNCHANGED <<inp, saves, adapterVars, stream, chatVars>>

Load ==
    /\ \E session_id \in SessionIds, readFault \in BOOLEAN :
          last' = [op |-> "load", id |-> session_id,
                   fault |-> IF readFault THEN "read" ELSE "none",
                   raised |-> load_session_call(store, session_id, readFault).raised,
                   result |-> load_session_call(store, session_id, readFault).result]
    /\ UNCHANGED <<store, now, inp, saves, adapterVars, stream, chatVars>>

Delete ==
    /\ \E session_id \in SessionIds, unlinkFault \in BOOLEAN :
          LET r == delete_session(store, session_id, unlinkFault)
          IN /\ store' = r.store
             /\ last' = [op |-> "delete", id |-> session_id,
                         fault |-> IF unlinkFault THEN "unlink" ELSE "none",
                         raised |-> r.raised, result |-> Some(r.result)]
    /\ UNCHANGED <<now, inp, saves, adapterVars, stream, chatVars>>

StoreInit ==
    /\ InitStore
    /\ ChatIdle
    /\ inp = NoArgs
    /\ saves = NoSaves
    /\ stream = NoStream
    /\ AdapterIdle

StoreNext == Tick \/ Save \/ Load \/ Delete

SpecStore == StoreInit /\ [][StoreNext]_vars

\* the session stored under session_id, as a load that can read the file returns it
Stored(st, session_id) == load_session(st, session_id, FALSE)

\* C1: a save to a session_id whose stored record is readable, and that
\* succeeds, stores the created_at the record already had: by induction every
\* save after the first stores the created_at the first save wrote, whatever
\* the other arguments are.
C1_CreatedAtPreserved ==
    [][\A id \in SessionIds :
          ( /\ last'.op = "save" /\ last'.id = id /\ ~last'.raised
            /\ last'.fault # "read"
            /\ Stored(store, id) # None )
          => /\ Stored(store', id) # None
             /\ Stored(store', id)[1].created_at = Stored(store, id)[1].created_at]_vars

\* a third save, two ticks after the first, that changed every argument
C1_Witness ==
    /\ last.op = "save" /\ ~last.raised /\ last.fault = "none"
    /\ Stored(store, last.id) # None
    /\ Stored(store, last.id)[1].created_at = 0
    /\ Stored(store, last.id)[1].updated_at = 2
    /\ Stored(store, last.id)[1].model_name = "mistral"

\* C3: a save that fails partway through the write, to a session_id that has
\* a stored record, leaves a later load returning the session as it was.
C3_FailedSaveKeepsPriorRecord ==
    [][\A id \in SessionIds :
          ( /\ last'.op = "save" /\ last'.id = id /\ last'.raised
            /\ last'.fault = "write"
            /\ Stored(store, id) # None )
          => Stored(store', id) = Stored(store, id)]_vars

\* C17: load_session never raises: it returns None when no record exists for
\* the session_id, and returns None as well when the record exists but
\* cannot be read or parsed.
C17_LoadNeverRaises ==
    last.op = "load" =>
        /\ ~last.raised
        /\ store[last.id].kind = "absent" => last.result = None
        /\ (store[last.id].kind = "corrupt" \/ last.fault = "read") => last.result = None
        /\ last.result # None => last.result = Some(ChatSession(store[last.id].doc))

\* a load of a record that does not parse
C17_Witness ==
    /\ last.op = "load" /\ ~last.raised
    /\ store[last.id].kind = "corrupt"
    /\ last.result = None

\* C18: delete_session never raises and returns true exactly when a record
\* existed before the call and is gone after it; after a true return the id
\* loads as absent and is not listed; with no record it returns false and
\* the store is unchanged; the records of all other ids are unchanged.
\* (A step of delete_session leaves the clock alone.)
C18_DeleteContract ==
    [][(last'.op = "delete" /\ now' = now) =>
          LET id == last'.id
              existed == store[id].kind # "absent"
              gone == store'[id].kind = "absent"
          IN /\ ~last'.raised
             /\ last'.result = Some(existed /\ gone)
             /\ last'.result = Some(TRUE) =>
                    /\ load_session(store', id, FALSE) = None
                    /\ id \notin list_sessions(store')
             /\ ~existed => (last'.result = Some(FALSE) /\ store' = store)
             /\ \A other \in SessionIds \ {id} : store'[other] = store[other]]_vars

\* a delete that removed a record while the other id keeps its record
C18_Witness ==
    /\ last.op = "delete" /\ last.result = Some(TRUE)
    /\ store[last.id].kind = "absent"
    /\ \E other \in SessionIds \ {last.id} : Stored(store, other) # None

\* C19: list_sessions returns exactly the ids saved and not deleted since:
\* a successful save adds its id, a successful delete removes its id, and
\* no other call (a failed save, a failed delete, a load) changes the list.
C19_ListIsSavedNotDeleted ==
    [][LET id == last'.id
       IN /\ (last'.op = "save" /\ ~last'.raised)
               => list_sessions(store') = list_sessions(store) \cup {id}
          /\ (last'.op = "save" /\ last'.raised)
               => list_sessions(store') = list_sessions(store)
          /\ (last'.op = "delete" /\ last'.result = Some(TRUE))
               => list_sessions(store') = list_sessions(store) \ {id}
          /\ (last'.op = "delete" /\ last'.result = Some(FALSE))
               => list_sessions(store') = list_sessions(store)
          /\ last'.op \in {"load", "none"}
               => list_sessions(store') = list_sessions(store)]_vars

\* C24: a session is never auto-deleted: a record that load_session returns
\* is still returned after every step that is not a delete_session of its
\* id, be it a successful or a failed save to any id, a load, or a delete
\* of another id.
C24_NeverAutoDeleted ==
    [][\A id \in SessionIds :
          (/\ Stored(store, id) # None
           /\ ~(last'.op = "delete" /\ last'.id = id /\ now' = now))
             => Stored(store', id) # None]_vars

-----------------------------------------------------------------------------
(* The history listing: saves to three session ids at clock readings that  *)
(* can coincide or differ, and list_sessions_detailed over the directory.  *)

ListingIds == {"s1", "s2", "s3"}

\* one conversation, saved under every id
ListingInput ==
    SaveArgs("llama3", <<ChatMessage("user", <<"a">>, 0), ChatMessage("assistant", <<"b">>, 1)>>,
             DefaultParameters, None)

ListingInit ==
    /\ store = [id \in ListingIds |-> Absent]
    /\ now = 0
    /\ last = NoCall
    /\ ChatIdle
    /\ inp = NoArgs
    /\ saves = NoSaves
    /\ stream = NoStream
    /\ AdapterIdle

ListingSave ==
    /\ \E session_id \in ListingIds, fault \in {"none", "write"}, d \in {0, 1} :
          SaveWith(session_id, ListingInput, fault, d)
    /\ UNCHANGED <<inp, saves, adapterVars, stream, chatVars>>

\* list_sessions_detailed, with the ids in an order glob can give them and
\* at most one file whose read fails (last.id, when last.fault is "read")
ListDetailed ==
    /\ \E ids \in list_sessions_orders(store), unreadable \in {{}} \cup {{id} : id \in ListingIds} :
          last' = [op |-> "list_detailed",
                   id |-> IF unreadable = {} THEN "" ELSE CHOOSE id \in unreadable : TRUE,
                   fault |-> IF unreadable = {} THEN "none" ELSE "read",
                   raised |-> FALSE,
                   result |-> Some(list_sessions_detailed(store, ids, unreadable))]
    /\ UNCHANGED <<store, now, inp, saves, adapterVars, stream, chatVars>>

ListingNext == ListingSave \/ ListDetailed

SpecListing == ListingInit /\ [][ListingNext]_vars

\* C20: list_sessions_detailed returns its entries by updated_at descending:
\* each entry carries the updated_at of its stored record, and of two
\* adjacent entries the earlier has an updated_at at least that of the later.
C20_DetailedNewestFirst ==
    last.op = "list_detailed" =>
        LET entries == last.result[1]
        IN /\ \A i \in 1..Len(entries) :
                 /\ Stored(store, entries[i].session_id) # None
                 /\ entries[i].updated_at = Stored(store, entries[i].session_id)[1].updated_at
           /\ \A i \in 1..(Len(entries) - 1) : entries[i].updated_at >= entries[i + 1].updated_at

\* three ids saved at clock readings 0 < 1 < 2, then the oldest saved again
\* at 3: it is listed first, before the ids saved at 2 and at 1
C20_Witness ==
    /\ last.op = "list_detailed"
    /\ Len(last.result[1]) = 3
    /\ last.result[1][1].created_at = 0 /\ last.result[1][1].updated_at = 3
    /\ last.result[1][2].updated_at = 2
    /\ last.result[1][3].updated_at = 1

\* the records of the directory that load_session returns during the listing
\* that last describes
Loadable ==
    { id \in ListingIds : /\ store[id].kind = "json"
                          /\ ~(last.fault = "read" /\ last.id = id) }

\* C21: list_sessions_detailed does not fail when a stored record cannot be
\* loaded: it returns exactly one entry for each record that loads and no
\* entry for a record that fails to load.
C21_UnloadableSkipped ==
    last.op = "list_detailed" =>
        LET entries == last.result[1]
        IN /\ ~last.raised
           /\ \A id \in Loadable :
                 Cardinality({ i \in 1..Len(entries) : entries[i].session_id = id }) = 1
           /\ \A i \in 1..Len(entries) : entries[i].session_id \in Loadable

\* a listing over three files of which one does not parse and one cannot be
\* read: the one entry returned is that of the third
C21_Witness ==
    /\ last.op = "list_detailed"
    /\ \E id \in ListingIds : store[id].kind = "corrupt"
    /\ last.fault = "read" /\ store[last.id].kind = "json"
    /\ Cardinality(Loadable) = 1
    /\ Len(last.result[1]) = 1

-----------------------------------------------------------------------------
(* get_session_preview over drawn sessions: up to MaxPreviewMsgs messages  *)
(* of every role, contents that are empty, short, padded with whitespace,  *)
(* broken by newlines or longer than the default max_length.               *)

MaxPreviewMsgs == 3

\* a content one character longer than the default max_length
LongContent == [i \in 1..(PreviewLength + 1) |-> "x"]

PreviewContents ==
    { << >>, <<"a">>, <<"a", "b", "c">>, <<" ", "a", "\n", "\n", "b", "\n">>, LongContent }

PreviewPool ==
    { ChatMessage("user", c, 0) : c \in PreviewContents }
        \cup { ChatMessage("assistant", <<"b", "a">>, 0), ChatMessage("system", <<"c">>, 0) }

PreviewLengths == {2, 3, PreviewLength}

PreviewInit ==
    /\ InitStore
    /\ ChatIdle
    /\ inp \in [session : { ChatSession(model_dump([session_id |-> "s1",
                                                     model_name |-> "llama3",
                                                     messages |-> ms,
                                                     parameters |-> DefaultParameters,
                                                     system_prompt |-> None,
                                                     created_at |-> 0,
                                                     updated_at |-> 0])) :
                                ms \in SeqsUpTo(PreviewPool, MaxPreviewMsgs) },
                  max_length : PreviewLengths]
    /\ saves = NoSaves
    /\ stream = NoStream
    /\ AdapterIdle

Preview ==
    /\ last.op = "none"
    /\ last' = [op |-> "preview", id |-> inp.session.session_id, fault |-> "none",
                raised |-> FALSE,
                result |-> Some(get_session_preview(inp.session, inp.max_length))]
    /\ UNCHANGED <<store, now, inp, saves, adapterVars, stream, chatVars>>

PreviewNext == Preview

SpecPreview == PreviewInit /\ [][PreviewNext]_vars

-----------------------------------------------------------------------------
(* generate_session_id called again and again by one process while the    *)
(* wall clock advances: inp holds the identifiers returned so far.         *)

MaxIdClock == 7
MaxIds == 3

IdsInit ==
    /\ InitStore
    /\ ChatIdle
    /\ inp = << >>
    /\ saves = NoSaves
    /\ stream = NoStream
    /\ AdapterIdle

IdsTick ==
    /\ now < MaxIdClock
    /\ now' = now + 1
    /\ UNCHANGED <<store, last, inp, saves, adapterVars, stream, chatVars>>

GenerateSessionId ==
    /\ Len(inp) < MaxIds
    /\ inp' = Append(inp, generate_session_id(now))
    /\ last' = [op |-> "generate_session_id", id |-> "", fault |-> "none", raised |-> FALSE,
                result |-> Some(generate_session_id(now))]
    /\ UNCHANGED <<store, now, saves, adapterVars, stream, chatVars>>

IdsNext == IdsTick \/ GenerateSessionId

SpecIds == IdsInit /\ [][IdsNext]_vars

\* C23: any two calls of generate_session_id in one process return distinct
\* identifiers, two calls within the same second of the clock included.
C23_IdsDistinct ==
    \A i, j \in 1..Len(inp) : i # j => inp[i] # inp[j]

-----------------------------------------------------------------------------
(* Two callers inside save_session at the same time, each at its own line, *)
(* over a directory where each session id has no record or an earlier one. *)

\* the record of an earlier save, at clock reading 0
EarlierRecord(session_id) ==
    save_session([id \in SessionIds |-> Absent], 0, 0, session_id,
                 SaveArgs("llama3", << >>, DefaultParameters, None), "none").store[session_id]

SavesInit ==
    /\ store \in [SessionIds -> {Absent}] \cup { [id \in SessionIds |-> EarlierRecord(id)] }
    /\ now = 1
    /\ last = NoCall
    /\ ChatIdle
    /\ inp = NoArgs
    /\ saves = NoSaves
    /\ stream = NoStream
    /\ AdapterIdle

SaveBegin(h) ==
    /\ saves[h].pc = "idle"
    /\ \E session_id \in SessionIds, a \in SaveInputs, fault \in SaveFaults :
          saves' = [saves EXCEPT ![h] = save_begin(store, now, session_id, a, fault)]
    /\ UNCHANGED <<store, now, last, inp, adapterVars, stream, chatVars>>

SaveBuild(h) ==
    /\ saves[h].pc = "read"
    /\ saves' = [saves EXCEPT ![h] = save_build(saves[h], now)]
    /\ UNCHANGED <<store, now, last, inp, adapterVars, stream, chatVars>>

SaveOpen(h) ==
    /\ saves[h].pc = "built"
    /\ store' = save_open(store, saves[h]).store
    /\ saves' = [saves EXCEPT ![h] = save_open(store, saves[h]).save]
    /\ UNCHANGED <<now, last, inp, adapterVars, stream, chatVars>>

SaveWrite(h) ==
    /\ saves[h].pc = "opened"
    /\ store' = save_write(store, saves[h]).store
    /\ saves' = [saves EXCEPT ![h] = save_write(store, saves[h]).save]
    /\ UNCHANGED <<now, last, inp, adapterVars, stream, chatVars>>

SavesTick ==
    /\ now < MaxClock
    /\ now' = now + 1
    /\ UNCHANGED <<store, last, inp, saves, adapterVars, stream, chatVars>>

SavesNext ==
    \/ SavesTick
    \/ \E h \in Savers : SaveBegin(h) \/ SaveBuild(h) \/ SaveOpen(h) \/ SaveWrite(h)

SpecSaves == SavesInit /\ [][SavesNext]_vars

\* the record that the call of save_session described by save leaves when
\* it runs alone, from the record it found to the end
AloneRecord(save) ==
    save_session([id \in SessionIds |-> IF id = save.session_id THEN save.before ELSE Absent],
                 save.clk, save.updated_at - save.clk, save.session_id, save.args,
                 save.fault).store[save.session_id]

\* C25: saves to different session_ids do not contend: a step of a call of
\* save_session changes no record but that of its own session_id, and when
\* two calls for different session_ids run one after the other or line by
\* line in turn, each call that has ended leaves under its session_id
\* exactly the record it would have left running alone.
C25_SavesDoNotContend ==
    [][\A h \in Savers :
          /\ saves'[h] # saves[h]
                => \A id \in SessionIds \ {saves'[h].session_id} : store'[id] = store[id]
          /\ (/\ saves'[h].pc \in {"done", "raised"}
              /\ \A other \in Savers \ {h} : saves'[other].session_id # saves'[h].session_id)
                => store'[saves'[h].session_id] = AloneRecord(saves'[h])]_vars

\* A began before B and read the clock for updated_at after B did: both
\* records are in place, and A kept the created_at of the earlier record
C25_Witness ==
    /\ saves["A"].pc = "done" /\ saves["B"].pc = "done"
    /\ saves["A"].session_id = "s1" /\ saves["B"].session_id = "s2"
    /\ saves["A"].clk < saves["B"].clk
    /\ saves["B"].updated_at < saves["A"].updated_at
    /\ Stored(store, "s1") # None /\ Stored(store, "s2") # None
    /\ Stored(store, "s1")[1].created_at = 0
    /\ Stored(store, "s1")[1].updated_at = saves["A"].updated_at
    /\ Stored(store, "s2")[1].updated_at = saves["B"].updated_at

-----------------------------------------------------------------------------
(* filter_models over drawn lists of models and drawn patterns.            *)

MaxPattern == 3
MaxModels == 3

PatternTokens == {"g", "p", "t", "P", ".", "*", "[", "]", BigRepeat}

Patterns == SeqsUpTo(PatternTokens, MaxPattern)

NamedModel(name) == [name |-> name]

FilterPool ==
    { NamedModel(<<"G", "P", "T", "-", "4">>),
      NamedModel(<<"l", "l", "a", "m", "a", "3">>),
      NamedModel(<<"g", "p", "t", "-", "n", "e", "o">>) }

FilterInit ==
    /\ InitStore
    /\ ChatIdle
    /\ inp \in [models : SeqsUpTo(FilterPool, MaxModels), pattern : Patterns]
    /\ saves = NoSaves
    /\ stream = NoStream
    /\ AdapterIdle

Filter ==
    /\ last.op = "none"
    /\ last' = [op |-> "filter", id |-> "", fault |-> "none",
                raised |-> filter_models(inp.models, inp.pattern).raised,
                result |-> Some(filter_models(inp.models, inp.pattern).result)]
    /\ UNCHANGED <<store, now, inp, saves, adapterVars, stream, chatVars>>

FilterNext == Filter

SpecFilter == FilterInit /\ [][FilterNext]_vars

\* C26: filter_models returns its input list unchanged and never raises
\* when the pattern is empty and when the pattern does not compile as a
\* regular expression, for every input list, the empty list included.
C26_DegeneratePatternIsIdentity ==
    (last.op = "filter" /\ (inp.pattern = << >> \/ re_compile(inp.pattern).exc # ""))
        => (~last.raised /\ last.result = Some(inp.models))

\* the pattern is made of literal characters only
IsLiteral(pattern) == \A i \in 1..Len(pattern) : pattern[i] \in {"g", "p", "t", "P"}

\* str.lower() of a text
lower_text(text) == [i \in 1..Len(text) |-> lower(text[i])]

\* part occurs in text
Substring(part, text) ==
    \E j \in 0..(Len(text) - Len(part)) : SubSeq(text, j + 1, j + Len(part)) = part

\* C27: for a pattern that is not empty and compiles, filter_models returns
\* exactly the models whose name the pattern matches somewhere, without
\* regard to case, in the order of the input: the result is the input at
\* increasing positions, and these are all the positions of matching
\* models; a pattern of literal characters matches a name when its lower
\* case occurs in the lower case of the name.
C27_MatchingSubsequence ==
    (last.op = "filter" /\ inp.pattern # << >> /\ re_compile(inp.pattern).exc = "")
        => LET result == last.result[1]
               matching == { i \in 1..Len(inp.models) :
                               re_search(re_compile(inp.pattern).atoms, inp.models[i].name) }
           IN /\ ~last.raised
              /\ \E f \in [1..Len(result) -> 1..Len(inp.models)] :
                    /\ \A k \in 1..Len(result) : result[k] = inp.models[f[k]]
                    /\ \A k \in 1..(Len(result) - 1) : f[k] < f[k + 1]
                    /\ { f[k] : k \in 1..Len(result) } = matching
              /\ IsLiteral(inp.pattern)
                    => matching = { i \in 1..Len(inp.models) :
                                      Substring(lower_text(inp.pattern),
                                                lower_text(inp.models[i].name)) }

\* "gpt" over [GPT-4, llama3, gpt-neo] gives [GPT-4, gpt-neo]
C27_Witness ==
    /\ last.op = "filter"
    /\ inp.pattern = <<"g", "p", "t">>
    /\ inp.models = <<NamedModel(<<"G", "P", "T", "-", "4">>),
                      NamedModel(<<"l", "l", "a", "m", "a", "3">>),
                      NamedModel(<<"g", "p", "t", "-", "n", "e", "o">>)>>
    /\ last.result[1] = <<NamedModel(<<"G", "P", "T", "-", "4">>),
                          NamedModel(<<"g", "p", "t", "-", "n", "e", "o">>)>>

-----------------------------------------------------------------------------
(* ModelParameters constructed from drawn values: inside the ranges, on    *)
(* their limits and one step outside them.                                 *)

Temperatures == {-1, 0, 7, 20, 21}

TopPs == {-1, 0, 90, 100, 101}

MaxTokens == {None, Some(-1), Some(0), Some(1), Some(2000)}

ParametersInit ==
    /\ InitStore
    /\ ChatIdle
    /\ inp \in [temperature : Temperatures, top_p : TopPs, max_tokens : MaxTokens]
    /\ saves = NoSaves
    /\ stream = NoStream
    /\ AdapterIdle

Construct ==
    /\ last.op = "none"
    /\ LET r == ModelParameters(inp.temperature, inp.top_p, inp.max_tokens)
       IN last' = [op |-> "construct", id |-> "", fault |-> "none",
                   raised |-> r.raised, result |-> r.result]
    /\ UNCHANGED <<store, now, inp, saves, adapterVars, stream, chatVars>>

ParametersNext == Construct

SpecParameters == ParametersInit /\ [][ParametersNext]_vars

\* C28: ModelParameters(temperature, top_p, max_tokens) is constructed if
\* and only if 0.0 <= temperature <= 2.0, 0.0 <= top_p <= 1.0 and max_tokens
\* is absent or at least 1; the object constructed holds the values given,
\* and a value out of range is rejected, never moved into the range.
C28_ParametersValidated ==
    last.op = "construct" =>
        LET inRange == /\ 0 <= inp.temperature /\ inp.temperature <= 20
                       /\ 0 <= inp.top_p /\ inp.top_p <= 100
                       /\ (inp.max_tokens = None \/ inp.max_tokens[1] >= 1)
        IN /\ ~last.raised <=> inRange
           /\ ~last.raised => last.result = [temperature |-> inp.temperature,
                                             top_p |-> inp.top_p,
                                             max_tokens |-> inp.max_tokens]
           /\ last.raised => last.result = None

\* temperature 2.1 with a top_p and a max_tokens in range is rejected
C28_Witness ==
    /\ last.op = "construct"
    /\ inp = [temperature |-> 21, top_p |-> 90, max_tokens |-> Some(2000)]
    /\ last.raised

-----------------------------------------------------------------------------
(* The progress display of on_chat_start over drawn snapshots: completed   *)
(* absent, zero, below, at and above the total; total absent, zero and     *)
(* positive.                                                               *)

MaxCompleted == 150

CompletedValues == {None, Some(2500)} \cup { Some(c) : c \in 0..MaxCompleted }

TotalValues == {None, Some(0), Some(2), Some(100), Some(5000)}

ProgressInit ==
    /\ InitStore
    /\ ChatIdle
    /\ inp \in { Progress("pulling", c, t) : c \in CompletedValues, t \in TotalValues }
    /\ saves = NoSaves
    /\ stream = NoStream
    /\ AdapterIdle

\* one turn of the loop of chat.py lines 139-177
ShowProgress ==
    /\ last.op = "none"
    /\ last' = [op |-> "progress", id |-> "", fault |-> "none", raised |-> FALSE,
                result |-> Some([percentage |-> percentage_of(inp),
                                 filled |-> filled_of(percentage_of(inp)),
                                 bar |-> bar_of(percentage_of(inp))])]
    /\ UNCHANGED <<store, now, inp, saves, adapterVars, stream, chatVars>>

ProgressNext == ShowProgress

SpecProgress == ProgressInit /\ [][ProgressNext]_vars

\* C29: for every progress snapshot whose total is absent or positive, the
\* percentage displayed is floor(completed / total * 100), a missing
\* completed counting as 0 and a missing total as 1, and the number of
\* filled cells of the bar is floor(20 * percentage / 100).
C29_PercentageIsFloor ==
    (last.op = "progress" /\ inp.total # Some(0)) =>
        LET completed == IF inp.completed = None THEN 0 ELSE inp.completed[1]
            total == IF inp.total = None THEN 1 ELSE inp.total[1]
        IN /\ last.result[1].percentage = (completed * 100) \div total
           /\ last.result[1].filled = (20 * last.result[1].percentage) \div 100

\* C30: the bar of every progress snapshot, those with an absent or zero
\* total and those whose completed exceeds the total included, has exactly
\* 20 cells, the filled cells before the empty ones.
C30_BarHasTwentyCells ==
    last.op = "progress" =>
        LET bar == last.result[1].bar
        IN /\ Len(bar) = 20
           /\ \A i, j \in 1..Len(bar) : (bar[i] = "empty" /\ bar[j] = "full") => j < i

-----------------------------------------------------------------------------
(* Save and load of one drawn argument tuple: every combination of model,  *)
(* messages, parameters and system prompt, saved to one session id over    *)
(* an absent, an existing or an unparseable file.                          *)

RTId == "s1"

RTInit ==
    /\ InitStore
    /\ ChatIdle
    /\ inp \in AllSaveInputs
    /\ saves = NoSaves
    /\ stream = NoStream
    /\ AdapterIdle

SaveDrawn ==
    /\ \E fault \in SaveFaults, d \in {0, 1} : SaveWith(RTId, inp, fault, d)
    /\ UNCHANGED <<inp, saves, adapterVars, stream, chatVars>>

LoadSaved ==
    /\ \E readFault \in BOOLEAN :
          last' = [op |-> "load", id |-> RTId,
                   fault |-> IF readFault THEN "read" ELSE "none", raised |-> FALSE,
                   result |-> load_session(store, RTId, readFault)]
    /\ UNCHANGED <<store, now, inp, saves, adapterVars, stream, chatVars>>

RTNext == SaveDrawn \/ LoadSaved

SpecRoundTrip == RTInit /\ [][RTNext]_vars

RolesAndContents(messages) ==
    [i \in 1..Len(messages) |-> <<messages[i].role, messages[i].content>>]

\* C2: right after a successful save_session(id, ...), load_session(id)
\* returns a session with the same session_id, model_name, parameters and
\* system_prompt and the same roles and contents, in the same order.
C2_RoundTrip ==
    (last.op = "save" /\ ~last.raised) =>
        LET s == load_session(store, last.id, FALSE)
        IN /\ s # None
           /\ s[1].session_id = last.id
           /\ s[1].model_name = inp.model_name
           /\ s[1].parameters = inp.parameters
           /\ s[1].system_prompt = inp.system_prompt
           /\ RolesAndContents(s[1].messages) = RolesAndContents(inp.messages)

\* a successful save of two different messages, a system prompt and a
\* token limit, over a record that already existed
C2_Witness ==
    /\ last.op = "save" /\ ~last.raised
    /\ inp.system_prompt # None
    /\ inp.parameters.max_tokens # None
    /\ Len(inp.messages) = 2
    /\ inp.messages[1].role # inp.messages[2].role
    /\ inp.messages[1].content # inp.messages[2].content
    /\ Stored(store, last.id)[1].updated_at > Stored(store, last.id)[1].created_at + 1

-----------------------------------------------------------------------------
(* One chat_stream generator, called with drawn arguments and driven by a  *)
(* consumer that keeps what the daemon delivered and what was yielded.     *)

\* the parameter values of the stream's calls: the defaults, both limits
\* of the ranges and the smallest max_tokens
StreamParameterSets ==
    ParameterSets \cup {[temperature |-> 0, top_p |-> 0, max_tokens |-> Some(1)],
                        [temperature |-> 20, top_p |-> 100, max_tokens |-> None]}

StreamInputs ==
    { [messages |-> ms, model |-> m, params |-> p] :
        ms \in { <<ProviderMessage("user", <<"hi">>)>>,
                 <<ProviderMessage("system", <<"be brief">>), ProviderMessage("user", <<"hi">>)>>,
                 <<ProviderMessage("user", <<"hi">>), ProviderMessage("assistant", <<"x">>),
                   ProviderMessage("user", <<"yo">>)>> },
        m \in Models, p \in StreamParameterSets }

StreamInit ==
    /\ InitStore
    /\ ChatIdle
    /\ inp \in StreamInputs
    /\ saves = NoSaves
    /\ stream = NoStream
    /\ AdapterIdle

\* chat_stream(messages, model, params): the generator object; nothing of its body runs yet
StreamCall ==
    /\ stream.result = "idle"
    /\ stream' = [NoStream EXCEPT !.gen = Generator(inp.messages, inp.model, inp.params),
                                  !.result = "running"]
    /\ UNCHANGED <<store, now, last, inp, saves, adapterVars, chatVars>>

\* async for chunk in chat_stream(...): one __anext__()
StreamNext ==
    /\ stream.result = "running"
    /\ \E b \in BurstsFor(stream.gen, stream.delivered) :
          LET r == chat_stream_next(stream.gen, b)
          IN /\ r.kind # "blocked"
             /\ stream' =
                  [gen |-> [stream.gen EXCEPT !.g = r.g],
                   delivered |-> stream.delivered \o b,
                   yielded |-> IF r.kind = "yield" THEN Append(stream.yielded, r.chunk)
                               ELSE stream.yielded,
                   result |-> CASE r.kind = "yield" -> "running"
                                [] r.kind = "return" -> "returned"
                                [] OTHER -> "raised",
                   raised |-> IF r.kind = "raise" THEN r.chunk ELSE << >>,
                   request |-> IF stream.gen.g = "new"
                               THEN Some(chat_request(stream.gen.messages, stream.gen.model,
                                                      stream.gen.params))
                               ELSE stream.request]
    /\ UNCHANGED <<store, now, last, inp, saves, adapterVars, chatVars>>

StreamNextStep == StreamCall \/ StreamNext

SpecStream == StreamInit /\ [][StreamNextStep]_vars

\* a daemon fragment whose text content is non-empty, and that content
HasText(ev) ==
    /\ ev.kind = "fragment"
    /\ ev.chunk.message # None
    /\ ev.chunk.message[1].content # None
    /\ ev.chunk.message[1].content[1] # << >>

TextsOf(events) ==
    LET sel == SelectSeq(events, HasText)
    IN [i \in 1..Len(sel) |-> sel[i].chunk.message[1].content[1]]

FailureIn(events) == \E i \in 1..Len(events) : events[i].kind = "error"

EndsWith(events, kind) == events # << >> /\ events[Len(events)].kind = kind

\* C4: while the daemon's stream has not failed, the chunks yielded are
\* exactly the contents of the delivered fragments that carry text, in the
\* order of delivery; the generator returns when, and only when, the
\* daemon's stream has ended.
C4_OneChunkPerTextFragment ==
    ~FailureIn(stream.delivered) =>
        /\ stream.yielded = TextsOf(stream.delivered)
        /\ stream.result # "raised"
        /\ EndsWith(stream.delivered, "end") <=> stream.result = "returned"

\* two different chunks with a fragment without text between them, then the end
C4_Witness ==
    /\ stream.result = "returned"
    /\ Len(stream.delivered) = 4
    /\ HasText(stream.delivered[1]) /\ ~HasText(stream.delivered[2])
    /\ HasText(stream.delivered[3])
    /\ stream.yielded = <<<<"x">>, <<"y">>>>

\* C5: a connection error of the daemon call before any fragment makes
\* chat_stream raise OllamaNotRunningError without having yielded a chunk.
C5_ConnectionErrorRaises ==
    ( /\ EndsWith(stream.delivered, "error")
      /\ stream.delivered[Len(stream.delivered)].class = "ConnectionError"
      /\ FragmentsIn(stream.delivered) = 0 )
    => /\ stream.result = "raised"
       /\ stream.raised = OllamaNotRunningText
       /\ stream.yielded = << >>

C5_Witness ==
    /\ stream.delivered = <<DaemonError("ConnectionError", <<"connection refused">>)>>
    /\ stream.result = "raised"
    /\ stream.request # None

\* C6: once a chunk was yielded, no failure of the daemon's stream is raised:
\* it becomes exactly one more chunk and the generator then returns.
C6_NoRaiseAfterFirstChunk ==
    (FailureIn(stream.delivered) /\ TextsOf(stream.delivered) # << >>)
    => /\ stream.result # "raised"
       /\ Len(stream.yielded) = Len(TextsOf(stream.delivered)) + 1
       /\ stream.gen.g \in {"handled", "closed"}

\* C11: the options of the request chat_stream sends hold temperature and
\* top_p equal to the parameters, and hold the key num_predict, equal to
\* max_tokens, exactly when max_tokens is set; with max_tokens unset the
\* options have no such key.
C11_RequestOptions ==
    stream.request # None =>
        LET options == stream.request[1].options
        IN /\ options.temperature = inp.params.temperature
           /\ options.top_p = inp.params.top_p
           /\ ("num_predict" \in DOMAIN options) <=> (inp.params.max_tokens # None)
           /\ inp.params.max_tokens # None => options.num_predict = inp.params.max_tokens[1]
           /\ DOMAIN options \subseteq {"temperature", "top_p", "num_predict"}

\* a request for parameters without max_tokens: the options are temperature and top_p alone
C11_Witness ==
    /\ stream.request # None
    /\ inp.params.max_tokens = None
    /\ DOMAIN stream.request[1].options = {"temperature", "top_p"}

-----------------------------------------------------------------------------
(* One chat session after on_chat_start: settings updates and runs of      *)
(* on_message, which stream from the daemon and auto-save to the store.    *)

\* the session as on_chat_start leaves it (lines 55-65), with the thread id
\* of cl.context.session
ChatSessions ==
    { [model |-> m, parameters |-> DefaultParameters, system_prompt |-> None,
       messages |-> 0, thread_id |-> t] : m \in Models, t \in {None, Some("s1")} }

ChatInit ==
    /\ InitStore
    /\ inp = NoArgs
    /\ saves = NoSaves
    /\ stream = NoStream
    /\ AdapterIdle
    /\ sess \in ChatSessions
    /\ lists = [l \in ListIds |-> << >>]
    /\ runs = [r \in Runs |-> IdleRun]

\* the settings dicts the panel sends: back to the defaults with the prompt
\* cleared, other values with a prompt, and other values without the prompt key
SettingsInputs ==
    { [temperature |-> None, top_p |-> None, max_tokens |-> Some(0),
       system_prompt |-> Some(<<" ">>)],
      [temperature |-> Some(5), top_p |-> Some(100), max_tokens |-> Some(100),
       system_prompt |-> Some(<<" ", "be brief">>)],
      [temperature |-> Some(5), top_p |-> Some(100), max_tokens |-> Some(100),
       system_prompt |-> None] }

SettingsUpdate ==
    /\ \E settings \in SettingsInputs : sess' = on_settings_update(sess, settings)
    /\ UNCHANGED <<store, now, last, inp, saves, adapterVars, stream, lists, runs>>

\* the text the user sends as turn i of the conversation
UserInput(i) == IF i % 2 = 1 THEN <<"hi">> ELSE <<" ", "yo", "\n">>

\* on_message up to its first await (line 313); the message has no elements
OnMessageStart(r) ==
    /\ runs[r].pc \in {"idle", "done"}
    /\ Len(lists[sess.messages]) < 2 * MaxTurns
    /\ \E raw \in {UserInput(Len(lists[sess.messages]) \div 2 + 1)} :
          LET fresh == lists[sess.messages] = << >>      \* line 292: ... or []
              h == IF fresh THEN r ELSE sess.messages
          IN /\ lists' = IF fresh THEN [lists EXCEPT ![r] = << >>] ELSE lists
             /\ runs' = [runs EXCEPT ![r] = on_message_start(sess, lists, h, strip(raw))]
    /\ UNCHANGED <<store, now, last, inp, saves, adapterVars, stream, sess>>

\* the text of the i-th fragment with text of a chat answer: x y x y ...
ChatScript(i) == IF i % 2 = 1 THEN <<"x">> ELSE <<"y">>

\* what the daemon can deliver to one __anext__() of the run's generator:
\* at most one fragment without text, then the next fragment of the answer,
\* the end of the stream or an error
ChatBursts(run) ==
    IF run.gen.g \in {"new", "loop"}
    THEN { e \o <<t>> :
             e \in {<< >>, <<Fragment(None)>>},
             t \in (IF Len(run.received) < MaxChunks
                    THEN {TextFragment(ChatScript(Len(run.received) + 1))} ELSE {})
                   \cup {StreamEnd} \cup DaemonErrors }
    ELSE { << >> }

\* the exception that ends the events b, if one does
Failure(b) == IF EndsWith(b, "error") THEN b[Len(b)] ELSE NoFailure

\* lines 320-323: the loop takes a chunk, appends it and awaits the update
OnMessageChunk(r, b) ==
    LET run == runs[r]
        res == chat_stream_next(run.gen, b)
    IN /\ res.kind = "yield"
       /\ runs' = [runs EXCEPT ![r] =
                     [run EXCEPT !.gen.g = res.g,
                                 !.out = run.out \o res.chunk,
                                 !.received = Append(run.received, res.chunk),
                                 !.failure = IF Failure(b) # NoFailure THEN Failure(b) ELSE @,
                                 !.partial = IF Failure(b) # NoFailure THEN run.out ELSE @,
                                 !.request = IF run.gen.g = "new"
                                             THEN Some(chat_request(run.gen.messages,
                                                         run.gen.model, run.gen.params))
                                             ELSE @]]
       /\ UNCHANGED <<store, now, last, inp, saves, adapterVars, stream, sess, lists>>

OnMessageRaised_keeping_user_turn(r, b) ==
    LET run == runs[r]
        res == chat_stream_next(run.gen, b)
    IN /\ res.kind = "raise"
       /\ runs' = [runs EXCEPT ![r] =
                     [run EXCEPT !.pc = "done", !.gen.g = res.g,
                                 !.out = stream_raised_display(run.out, res.chunk),
                                 !.failure = Failure(b), !.partial = run.out,
                                 !.outcome = "error"]]
       /\ lists' = [lists EXCEPT ![run.history] =
                      Append(@, ProviderMessage("user", run.content))]
       /\ sess' = [sess EXCEPT !.messages = run.history]
       /\ UNCHANGED <<store, now, last, inp, saves, adapterVars, stream>>

\* lines 328-337: chat_stream raised; the error replaces the content
OnMessageRaised(r, b) ==
    LET run == runs[r]
        res == chat_stream_next(run.gen, b)
    IN /\ res.kind = "raise"
       /\ runs' = [runs EXCEPT ![r] =
                     [run EXCEPT !.pc = "done", !.gen.g = res.g,
                                 !.out = stream_raised_display(run.out, res.chunk),
                                 !.failure = Failure(b),
                                 !.partial = run.out,
                                 !.outcome = "error",
                                 !.request = IF run.gen.g = "new"
                                             THEN Some(chat_request(run.gen.messages,
                                                         run.gen.model, run.gen.params))
                                             ELSE @]]
       /\ UNCHANGED <<store, now, last, inp, saves, adapterVars, stream, sess, lists>>

\* lines 325-371: the stream ended; the turn is appended to the history and
\* the session is auto-saved under the thread id
OnMessageFinish(r, b) ==
    LET run == runs[r]
        res == chat_stream_next(run.gen, b)
        h == run.history
        history == lists[h] \o <<ProviderMessage("user", run.content),
                                 ProviderMessage("assistant", run.out)>>
        request == IF run.gen.g = "new"
                   THEN Some(chat_request(run.gen.messages, run.gen.model, run.gen.params))
                   ELSE run.request
    IN /\ res.kind = "return"
       /\ lists' = [lists EXCEPT ![h] = history]
       /\ sess' = [sess EXCEPT !.messages = h]
       /\ IF sess.thread_id # None /\ sess.thread_id[1] # ""
          THEN \E fault \in SaveFaults, d \in {0, 1} :
                 LET sv == save_session(store, now, d, sess.thread_id[1],
                                        SaveArgs(run.model, chat_messages(history, now),
                                                 run.params, run.system_prompt), fault)
                 IN /\ now + d <= MaxClock
                    /\ store' = sv.store
                    /\ now' = now + d
                    /\ runs' = [runs EXCEPT ![r] =
                                  [run EXCEPT !.pc = "done", !.gen.g = res.g,
                                      !.outcome = "answered", !.request = request,
                                      !.out = IF sv.raised THEN autosave_failed_display(run.out)
                                              ELSE run.out,
                                      !.saved = IF sv.raised THEN "failed" ELSE "ok"]]
          ELSE /\ runs' = [runs EXCEPT ![r] =
                             [run EXCEPT !.pc = "done", !.gen.g = res.g,
                                         !.outcome = "answered", !.request = request,
                                         !.saved = "skipped"]]
               /\ UNCHANGED <<store, now>>
       /\ UNCHANGED <<last, inp, saves, adapterVars, stream>>

\* one step of the run's async for loop
OnMessageNext(r) ==
    /\ runs[r].pc = "streaming"
    /\ \E b \in ChatBursts(runs[r]) :
          OnMessageChunk(r, b) \/ OnMessageRaised(r, b) \/ OnMessageFinish(r, b)

\* one on_message run at a time: the chat input is disabled while a run is in progress
ChatRuns == {1}

ChatNext ==
    \/ SettingsUpdate
    \/ \E r \in ChatRuns : OnMessageStart(r)
    \/ \E r \in ChatRuns : OnMessageNext(r)

SpecChat == ChatInit /\ [][ChatNext]_vars

-----------------------------------------------------------------------------
(* The chat session with the regenerate button: runs of on_message and of  *)
(* on_regenerate_action, one at a time.                                    *)

\* on_regenerate_action, lines 29-53: up to the first await of the stream;
\* with an empty history the handler says so and returns
RegenerateStart(r) ==
    /\ runs[r].pc \in {"idle", "done"}
    /\ LET history == lists[sess.messages]
       IN IF history = << >>
          THEN /\ runs' = [runs EXCEPT ![r] = [IdleRun EXCEPT !.pc = "done",
                                                              !.outcome = "nothing"]]
               /\ UNCHANGED lists
          ELSE /\ lists' = [lists EXCEPT ![sess.messages] = without_last_answer(history)]
               /\ runs' = [runs EXCEPT ![r] =
                             [IdleRun EXCEPT !.pc = "regenerating", !.model = sess.model,
                                  !.params = sess.parameters,
                                  !.system_prompt = sess.system_prompt,
                                  !.history = sess.messages,
                                  !.gen = Generator(regenerate_messages(sess.system_prompt,
                                                        without_last_answer(history)),
                                                    sess.model, sess.parameters)]]
    /\ UNCHANGED <<store, now, last, inp, saves, adapterVars, stream, sess>>

\* lines 66-68: the stream ended; the answer is appended to the history
RegenerateFinish(r, b) ==
    LET run == runs[r]
        res == chat_stream_next(run.gen, b)
    IN /\ res.kind = "return"
       /\ lists' = [lists EXCEPT ![run.history] =
                      Append(@, ProviderMessage("assistant", run.out))]
       /\ sess' = [sess EXCEPT !.messages = run.history]
       /\ runs' = [runs EXCEPT ![r] = [run EXCEPT !.pc = "done", !.gen.g = res.g,
                                                  !.outcome = "answered"]]
       /\ UNCHANGED <<store, now, last, inp, saves, adapterVars, stream>>

\* lines 57-64: one step of the async for; the except clause does what the
\* clauses of on_message do
RegenerateNext(r) ==
    /\ runs[r].pc = "regenerating"
    /\ \E b \in ChatBursts(runs[r]) :
          OnMessageChunk(r, b) \/ OnMessageRaised(r, b) \/ RegenerateFinish(r, b)

RegenerateChatNext ==
    \/ \E r \in ChatRuns : OnMessageStart(r)
    \/ \E r \in ChatRuns : OnMessageNext(r)
    \/ \E r \in ChatRuns : RegenerateStart(r)
    \/ \E r \in ChatRuns : RegenerateNext(r)

SpecRegenerate == ChatInit /\ [][RegenerateChatNext]_vars

\* the history is a sequence of (user, assistant) pairs
IsPairs(history) ==
    /\ Len(history) % 2 = 0
    /\ \A i \in 1..Len(history) :
          history[i].role = IF i % 2 = 1 THEN "user" ELSE "assistant"

\* C35: whenever no run of on_message or on_regenerate_action is in
\* progress, the history of the session is a sequence of (user, assistant)
\* pairs: its length is even and its roles alternate, starting with user.
C35_HistoryIsPairs ==
    (\A r \in ChatRuns : runs[r].pc \in {"idle", "done"}) => IsPairs(lists[sess.messages])

-----------------------------------------------------------------------------
(* Two runs of on_message in one session, the second started while the     *)
(* first is suspended at an await: each step of a run is one stretch       *)
(* between two awaits, and the steps of the two runs interleave.           *)

\* the text the user sends to run r
OverlapInput(r) == IF r = 1 THEN <<"hi">> ELSE <<" ", "yo", "\n">>

\* on_message up to its first await (line 313), as OnMessageStart; each of
\* the two runs is started once
OverlapStart(r) ==
    /\ runs[r].pc = "idle"
    /\ LET fresh == lists[sess.messages] = << >>      \* line 292: ... or []
           h == IF fresh THEN r ELSE sess.messages
       IN /\ lists' = IF fresh THEN [lists EXCEPT ![r] = << >>] ELSE lists
          /\ runs' = [runs EXCEPT ![r] =
                        on_message_start(sess, lists, h, strip(OverlapInput(r)))]
    /\ UNCHANGED <<store, now, last, inp, saves, adapterVars, stream, sess>>

OverlapNext ==
    \/ \E r \in Runs : OverlapStart(r)
    \/ \E r \in Runs : OnMessageNext(r)

\* the history a loaded conversation puts in the session
\* (history_button.py, lines 170-172)
LoadedHistory == <<ProviderMessage("user", <<"a">>), ProviderMessage("assistant", <<"b">>)>>

\* the session as on_chat_start leaves it, with an empty list, or as the
\* load of a stored conversation leaves it
OverlapInit ==
    /\ InitStore
    /\ inp = NoArgs
    /\ saves = NoSaves
    /\ stream = NoStream
    /\ AdapterIdle
    /\ sess \in ChatSessions
    /\ \E history \in {<< >>, LoadedHistory} :
          lists = [l \in ListIds |-> IF l = 0 THEN history ELSE << >>]
    /\ runs = [r \in Runs |-> IdleRun]

SpecOverlap == OverlapInit /\ [][OverlapNext]_vars

\* the history holds the turn of run r: its user text followed by its answer
HoldsTurn(history, r) ==
    \E i \in 1..(Len(history) - 1) :
        /\ history[i] = [role |-> "user", content |-> runs[r].content]
        /\ history[i + 1] = [role |-> "assistant", content |-> runs[r].out]

\* C36: when two runs of on_message of one session have both completed
\* with an answer, the history of the session holds the user turn and the
\* assistant turn of each of them, whether or not they overlapped and also
\* when the history was empty when both started.
C36_NoTurnLost ==
    (\A r \in Runs : runs[r].pc = "done" /\ runs[r].outcome = "answered")
        => \A r \in Runs : HoldsTurn(lists[sess.messages], r)

RECURSIVE Concat(_)

\* the concatenation of a sequence of texts
Concat(texts) == IF texts = << >> THEN << >> ELSE Head(texts) \o Concat(Tail(texts))

IsPrefix(p, t) == Len(p) <= Len(t) /\ SubSeq(t, 1, Len(p)) = p

\* the history of run r's session ends with the run's turn: the user text, then the answer shown
TurnRecorded(r) ==
    LET history == lists[runs[r].history]
        n == Len(history)
    IN /\ sess.messages = runs[r].history
       /\ n >= 2
       /\ history[n - 1] = [role |-> "user", content |-> runs[r].content]
       /\ history[n] = [role |-> "assistant", content |-> runs[r].out]

\* C7: when the daemon reports that the model does not support chat, the run
\* ends normally: chat_stream yields one explanatory chunk and returns, and
\* on_message records the user text and the shown text (the explanation,
\* after whatever was streamed before it) as a turn of the history and
\* auto-saves it whenever there is a thread id.
C7_CapabilityMismatchRecorded ==
    \A r \in ChatRuns :
        (runs[r].pc = "done" /\ runs[r].failure = CapabilityMismatch) =>
            /\ runs[r].outcome = "answered"
            /\ runs[r].gen.g = "closed"
            /\ runs[r].received # << >>
            /\ runs[r].received[Len(runs[r].received)] = EmbeddingModelText(runs[r].model)
            /\ Len(runs[r].received) = Len(TextsOf([i \in 1..Len(runs[r].received) |->
                                              TextFragment(runs[r].received[i])]))
            /\ runs[r].out = runs[r].partial \o EmbeddingModelText(runs[r].model)
            /\ Concat(runs[r].received) = runs[r].out
            /\ TurnRecorded(r)
            /\ (sess.thread_id # None) <=> (runs[r].saved \in {"ok", "failed"})
            /\ runs[r].saved = "ok" =>
                   /\ Stored(store, sess.thread_id[1]) # None
                   /\ RolesAndContents(Stored(store, sess.thread_id[1])[1].messages)
                        = [i \in 1..Len(lists[sess.messages]) |->
                             <<lists[sess.messages][i].role, lists[sess.messages][i].content>>]

\* the mismatch is the daemon's answer to the request of a second turn, and the turn is saved
C7_Witness ==
    \E r \in ChatRuns :
        /\ runs[r].pc = "done" /\ runs[r].failure = CapabilityMismatch
        /\ runs[r].partial = << >>
        /\ runs[r].out = EmbeddingModelText(runs[r].model)
        /\ runs[r].saved = "ok"
        /\ Len(lists[sess.messages]) = 4

\* C8: after a failure during streaming that followed at least one displayed
\* chunk, the displayed message begins with the text displayed before it.
C8_PartialTextPreserved ==
    \A r \in ChatRuns :
        (runs[r].pc = "done" /\ runs[r].failure # NoFailure /\ runs[r].partial # << >>)
        => IsPrefix(runs[r].partial, runs[r].out)

\* C9: when the auto-save raises, the run still ends as an answered turn,
\* the displayed answer is the streamed text and the history holds the turn.
C9_AutoSaveBestEffort ==
    \A r \in ChatRuns :
        (runs[r].pc = "done" /\ runs[r].saved = "failed") =>
            /\ runs[r].outcome = "answered"
            /\ runs[r].out = Concat(runs[r].received)
            /\ TurnRecorded(r)

\* a two-chunk answer whose auto-save failed
C9_Witness ==
    \E r \in ChatRuns :
        /\ runs[r].pc = "done" /\ runs[r].saved = "failed"
        /\ runs[r].failure = NoFailure
        /\ Len(runs[r].received) = 2

\* C33: after a run of on_message whose stream ended without raising, in a
\* session with a thread id, and whose auto-save succeeded, the record stored
\* under the thread id holds the roles and contents of the session's
\* history, in order, with the model, parameters and system prompt the run
\* used; the last entry is the assistant's, the concatenation of the chunks
\* received in order.
C33_SavedTurnMatchesHistory ==
    \A r \in ChatRuns :
        (runs[r].pc = "done" /\ runs[r].outcome = "answered" /\ runs[r].saved = "ok") =>
            LET history == lists[sess.messages]
                stored == Stored(store, sess.thread_id[1])
            IN /\ sess.thread_id # None
               /\ stored # None
               /\ RolesAndContents(stored[1].messages)
                    = [i \in 1..Len(history) |-> <<history[i].role, history[i].content>>]
               /\ stored[1].model_name = runs[r].model
               /\ stored[1].parameters = runs[r].params
               /\ stored[1].system_prompt = runs[r].system_prompt
               /\ runs[r].request # None
               /\ runs[r].request[1].model = runs[r].model
               /\ history # << >>
               /\ history[Len(history)]
                    = [role |-> "assistant", content |-> Concat(runs[r].received)]

\* the second turn of a conversation, answered in two chunks under settings
\* changed from the defaults, is saved
C33_Witness ==
    \E r \in ChatRuns :
        /\ runs[r].pc = "done" /\ runs[r].outcome = "answered" /\ runs[r].saved = "ok"
        /\ runs[r].failure = NoFailure
        /\ Len(runs[r].received) = 2
        /\ Len(lists[sess.messages]) = 4
        /\ runs[r].system_prompt # None

\* C34: a run of on_message in which chat_stream raises changes neither the
\* history of the session nor the session store: no step of a run, from its
\* start to the step in which the exception is handled, changes either;
\* only the step that ends an answered run does.
C34_RaisedStreamLeavesNoTrace ==
    [][\A r \in ChatRuns :
          ( \/ runs[r].pc # "streaming" /\ runs'[r].pc = "streaming"
            \/ runs[r].pc = "streaming" /\ runs'[r].outcome # "answered" )
          => /\ lists'[sess'.messages] = lists[sess.messages]
             /\ store' = store]_vars

\* the daemon is gone in the middle of the second answer: the history and
\* the stored record still hold the first turn only
C34_Witness ==
    \E r \in ChatRuns :
        /\ runs[r].pc = "done" /\ runs[r].outcome = "error"
        /\ runs[r].partial # << >>
        /\ Len(lists[sess.messages]) = 2
        /\ sess.thread_id # None
        /\ Stored(store, sess.thread_id[1]) # None
        /\ Len(Stored(store, sess.thread_id[1])[1].messages) = 2

\* C37: an auto-save of a conversation that already has a stored record
\* leaves the timestamp of every message of that record as it was: only the
\* messages added since get new timestamps.
C37_TimestampsStable ==
    [][\A id \in SessionIds :
          (Stored(store, id) # None /\ Stored(store', id) # None) =>
              LET before == Stored(store, id)[1].messages
                  after == Stored(store', id)[1].messages
              IN \A i \in 1..Len(before) :
                    i <= Len(after) => after[i].timestamp = before[i].timestamp]_vars

-----------------------------------------------------------------------------
(* The chat session with a settings panel that also sends a max-tokens of  *)
(* 0 and of -1 next to other values.                                       *)

PanelSettings ==
    SettingsInputs \cup
    { [temperature |-> Some(5), top_p |-> Some(90), max_tokens |-> Some(0),
       system_prompt |-> None],
      [temperature |-> Some(5), top_p |-> Some(90), max_tokens |-> Some(-1),
       system_prompt |-> None] }

PanelUpdate ==
    /\ \E settings \in PanelSettings : sess' = on_settings_update(sess, settings)
    /\ UNCHANGED <<store, now, last, inp, saves, adapterVars, stream, lists, runs>>

PanelNext ==
    \/ PanelUpdate
    \/ \E r \in ChatRuns : OnMessageStart(r)
    \/ \E r \in ChatRuns : OnMessageNext(r)

SpecPanel == ChatInit /\ [][PanelNext]_vars

\* C39: whatever settings updates came before, the parameters of the
\* session hold max_tokens absent or at least 1 (a max-tokens of 0 is stored
\* as absent), and the options of every chat request hold num_predict only
\* when the parameters of the run hold max_tokens, with a value of at least 1.
C39_NumPredictAbsentOrPositive ==
    /\ sess.parameters.max_tokens = None \/ sess.parameters.max_tokens[1] >= 1
    /\ \A r \in ChatRuns :
          runs[r].request # None =>
              LET options == runs[r].request[1].options
              IN /\ "num_predict" \in DOMAIN options <=> runs[r].params.max_tokens # None
                 /\ "num_predict" \in DOMAIN options => options.num_predict >= 1

\* a request sent after the panel set a max-tokens of 0 with a temperature
\* of 0.5 and a top_p of 0.9: it has no num_predict
C39_Witness ==
    \E r \in ChatRuns :
        /\ runs[r].request # None
        /\ runs[r].params = [temperature |-> 5, top_p |-> 90, max_tokens |-> None]
        /\ DOMAIN runs[r].request[1].options = {"temperature", "top_p"}

\* the list the claim describes: a system message iff a prompt is set, the
\* prior history in order, the newest user turn last
ProviderList(system_prompt, history, content) ==
    LET k == IF system_prompt # None THEN 1 ELSE 0
        n == Len(history)
    IN [i \in 1..(k + n + 1) |->
          IF i <= k THEN [role |-> "system", content |-> system_prompt[1]]
          ELSE IF i <= k + n THEN history[i - k]
          ELSE [role |-> "user", content |-> content]]

\* C10: the list a run builds when it starts is the system prompt of the
\* session if one is set, then the history of the session, then the run's
\* user text; and the request chat_stream issues carries that list unchanged.
C10_ProviderMessageList ==
    [][\A r \in ChatRuns :
          /\ (runs[r].pc # "streaming" /\ runs'[r].pc = "streaming")
               => runs'[r].gen.messages =
                     ProviderList(sess.system_prompt, lists[sess.messages], runs'[r].content)
          /\ (runs[r].request = None /\ runs'[r].request # None)
               => /\ runs[r].pc = "streaming"
                  /\ runs'[r].request[1].messages = runs[r].gen.messages]_vars

\* the request of a second turn in a session with a system prompt
C10_Witness ==
    \E r \in ChatRuns :
        /\ runs[r].request # None
        /\ Len(runs[r].request[1].messages) = 4
        /\ runs[r].request[1].messages[1].role = "system"
        /\ runs[r].request[1].messages[4] = [role |-> "user", content |-> <<"yo">>]

-----------------------------------------------------------------------------
(* One call of an adapter operation, with the answers the daemon gives to  *)
(* its requests: list_local_models, pull_model and delete_model run from   *)
(* call to end in one step; pull_model_with_progress and chat_stream are   *)
(* generators resumed by their consumer.                                   *)

\* the daemon's answer to the first request of an operation
FirstAnswers(op) ==
    IF op = "list_local_models" THEN { Ok(resp) : resp \in ListResponses } \cup RequestErrors
    ELSE {Ok(<< >>)} \cup RequestErrors

\* the answer the daemon would give to a second request
SecondAnswers == {Ok(<< >>)} \cup RequestErrors

\* the first exception among the events taken from the daemon
FirstFailure(events) ==
    LET errors == { i \in 1..Len(events) : events[i].kind = "error" }
    IN IF errors = {} THEN NoFailure
       ELSE events[CHOOSE i \in errors : \A j \in errors : i <= j]

AdapterInit ==
    /\ InitStore
    /\ ChatIdle
    /\ inp = NoArgs
    /\ saves = NoSaves
    /\ stream = NoStream
    /\ AdapterIdle

\* list_local_models(), await pull_model(name), delete_model(name)
AdapterCall ==
    /\ adapter.pc = "idle"
    /\ \E op \in {"list_local_models", "pull_model", "delete_model"}, name \in Models,
          first \in RequestErrors \cup { Ok(resp) : resp \in ListResponses }, second \in SecondAnswers :
          LET answers == <<first, second>>
              r == CASE op = "list_local_models" -> list_local_models(answers)
                     [] op = "pull_model" -> pull_model(name, answers)
                     [] OTHER -> delete_model(name, answers)
              taken == SubSeq(answers, 1, r.requests)
          IN /\ first \in FirstAnswers(op)
             /\ adapter' = [NoAdapterCall EXCEPT !.op = op, !.pc = r.end,
                                                 !.daemon = SubSeq(answers, r.requests + 1, 2),
                                                 !.requests = r.requests, !.taken = taken,
                                                 !.failure = FirstFailure(taken),
                                                 !.exc = r.exc, !.value = r.value]
    /\ UNCHANGED <<store, now, last, inp, saves, stream, chatVars, ui, loop>>

\* pull_model_with_progress(name): the generator object; the daemon's
\* stream for its request is drawn here
AdapterPullStart ==
    /\ adapter.pc = "idle"
    /\ \E script \in PullScripts :
          adapter' = [NoAdapterCall EXCEPT !.op = "pull_model_with_progress", !.pc = "new",
                                          !.daemon = script]
    /\ UNCHANGED <<store, now, last, inp, saves, stream, chatVars, ui, loop>>

\* the adapter call after one __anext__() of pull_model_with_progress
pull_resumed(call) ==
    LET r == for_progress(call.daemon)
        consumed == SubSeq(call.daemon, 1, Len(call.daemon) - Len(r.rest))
    IN [call EXCEPT !.pc = CASE r.kind = "yield" -> "loop"
                            [] r.kind = "return" -> "returned"
                            [] OTHER -> "raised",
                    !.daemon = r.rest,
                    !.requests = IF call.pc = "new" THEN @ + 1 ELSE @,
                    !.taken = @ \o consumed,
                    !.yielded = IF r.kind = "yield" THEN Append(@, r.value[1]) ELSE @,
                    !.failure = FirstFailure(consumed),
                    !.exc = r.exc]

AdapterPullNext ==
    /\ adapter.op = "pull_model_with_progress"
    /\ adapter.pc \in {"new", "loop"}
    /\ ui.handler = "none"
    /\ adapter' = pull_resumed(adapter)
    /\ UNCHANGED <<store, now, last, inp, saves, stream, chatVars, ui, loop>>

\* chat_stream(messages, model, params): the generator object
AdapterChatStart ==
    /\ adapter.pc = "idle"
    /\ \E model \in Models :
          adapter' = [NoAdapterCall EXCEPT
                        !.op = "chat_stream", !.pc = "new",
                        !.gen = Generator(<<ProviderMessage("user", <<"hi">>)>>, model,
                                          DefaultParameters)]
    /\ UNCHANGED <<store, now, last, inp, saves, stream, chatVars, ui, loop>>

\* one __anext__() of chat_stream
AdapterChatNext ==
    /\ adapter.op = "chat_stream"
    /\ adapter.pc \in {"new", "loop", "handled"}
    /\ \E b \in BurstsFor(adapter.gen, adapter.taken) :
          LET r == chat_stream_next(adapter.gen, b)
          IN /\ r.kind # "blocked"
             /\ adapter' = [adapter EXCEPT
                              !.gen.g = r.g,
                              !.pc = CASE r.kind = "yield" -> r.g
                                       [] r.kind = "return" -> "returned"
                                       [] OTHER -> "raised",
                              !.requests = IF adapter.gen.g = "new" THEN @ + 1 ELSE @,
                              !.taken = @ \o b,
                              !.yielded = IF r.kind = "yield" THEN Append(@, r.chunk) ELSE @,
                              !.failure = IF Failure(b) # NoFailure THEN Failure(b) ELSE @,
                              !.exc = IF r.kind = "raise" THEN "OllamaNotRunningError" ELSE ""]
    /\ UNCHANGED <<store, now, last, inp, saves, stream, chatVars, ui, loop>>

AdapterNext ==
    \/ AdapterCall
    \/ AdapterPullStart
    \/ AdapterPullNext
    \/ AdapterChatStart
    \/ AdapterChatNext

SpecAdapter == AdapterInit /\ [][AdapterNext]_vars

AdapterOps ==
    {"list_local_models", "pull_model", "pull_model_with_progress", "delete_model", "chat_stream"}

\* C12: whenever the daemon call of an adapter operation fails with a
\* connection error, the operation raises OllamaNotRunningError.
C12_ConnectionErrorIsDaemonUnavailable ==
    (adapter.failure # NoFailure /\ adapter.failure.class = "ConnectionError")
    => /\ adapter.op \in AdapterOps
       /\ adapter.pc = "raised"
       /\ adapter.exc = "OllamaNotRunningError"

\* a streaming pull whose connection dropped after one update was yielded
C12_Witness ==
    /\ adapter.op = "pull_model_with_progress"
    /\ adapter.failure # NoFailure /\ adapter.failure.class = "ConnectionError"
    /\ Len(adapter.yielded) = 1
    /\ adapter.exc = "OllamaNotRunningError"

\* C13: a call of an adapter operation sends at most one request to the
\* daemon; once its request failed the call is over (it raised, or
\* chat_stream yielded its error chunk) with that one request sent.
C13_NoRetry ==
    /\ adapter.requests <= 1
    /\ adapter.failure # NoFailure =>
          /\ adapter.requests = 1
          /\ adapter.pc \in {"raised", "handled", "returned"}
          /\ adapter.op # "chat_stream" => adapter.pc = "raised"
          /\ Len(SelectSeq(adapter.taken, LAMBDA ev : ev.kind = "error")) = 1

\* a pull that failed with a connection error while a second request would have succeeded
C13_Witness ==
    /\ adapter.op = "pull_model" /\ adapter.pc = "raised"
    /\ adapter.failure # NoFailure /\ adapter.failure.class = "ConnectionError"
    /\ adapter.requests = 1
    /\ adapter.daemon = <<Ok(<< >>)>>

\* the progress dicts among the events taken from the daemon, in order
UpdatesOf(events) ==
    LET updates == SelectSeq(events, LAMBDA ev : ev.kind = "update")
    IN [i \in 1..Len(updates) |-> updates[i].progress]

\* C14: pull_model_with_progress has yielded, unchanged and in order, every
\* update it took from the daemon; suspended at a yield it has taken nothing
\* after the update it yielded last; and when the stream fails after k
\* updates it raises with exactly those k updates yielded.
C14_ProgressForwarded ==
    adapter.op = "pull_model_with_progress" =>
        /\ adapter.yielded = UpdatesOf(adapter.taken)
        /\ adapter.pc = "loop" =>
              /\ adapter.taken # << >>
              /\ adapter.taken[Len(adapter.taken)] = Update(adapter.yielded[Len(adapter.yielded)])
        /\ adapter.pc = "raised" =>
              /\ adapter.taken[Len(adapter.taken)].kind = "error"
              /\ Len(adapter.yielded) = Len(adapter.taken) - 1

\* the stream failed after two different updates
C14_Witness ==
    /\ adapter.op = "pull_model_with_progress" /\ adapter.pc = "raised"
    /\ Len(adapter.yielded) = 2
    /\ adapter.yielded[1] # adapter.yielded[2]

\* the name of a record by the priority of its fields: model, else name,
\* else the string form of the record
ResolvedName(m) ==
    IF TruthyName(m.model) THEN m.model[1]
    ELSE IF TruthyName(m.name) THEN m.name[1]
    ELSE "str(m)"

\* C31: list_local_models returns one ModelInfo per record of the daemon's
\* list response, in the daemon's order, each named by the priority of the
\* record's fields (model if it is there and not empty, else name if it is
\* there and not empty, else the string form of the record) and carrying
\* the family of the record's details.
C31_ListNamesByPriority ==
    (adapter.op = "list_local_models" /\ adapter.pc = "returned") =>
        LET records == adapter.taken[1].value
            infos == adapter.value[1]
        IN /\ Len(infos) = Len(records)
           /\ \A i \in 1..Len(records) :
                 /\ infos[i].name = ResolvedName(records[i])
                 /\ infos[i].family = IF records[i].details = None THEN None
                                      ELSE records[i].details[1].family

-----------------------------------------------------------------------------
(* The handlers that pull a model: the auto-download of on_chat_start,     *)
(* which consumes pull_model_with_progress, and pull_model_ui (/models     *)
(* pull), which awaits pull_model.                                         *)

\* on_chat_start, lines 128-135: the download message is sent and the generator created
ChatStartPull ==
    /\ ui.pc = "idle" /\ adapter.pc = "idle"
    /\ \E model \in Models, script \in PullScripts :
          /\ ui' = [NoPull EXCEPT !.handler = "on_chat_start", !.pc = "requested",
                                  !.model = model, !.shown = <<ShownRequested>>]
          /\ adapter' = [NoAdapterCall EXCEPT !.op = "pull_model_with_progress", !.pc = "new",
                                              !.daemon = script]
    /\ UNCHANGED <<store, now, last, inp, saves, stream, chatVars, loop>>

\* on_chat_start, lines 139-197: one turn of the async for, or its end
ChatStartPullNext ==
    /\ ui.handler = "on_chat_start" /\ ui.pc \in {"requested", "downloading"}
    /\ LET call == pull_resumed(adapter)
       IN /\ adapter' = call
          /\ IF call.pc = "loop"
             THEN LET progress == call.yielded[Len(call.yielded)]
                  IN ui' = [ui EXCEPT !.pc = "downloading",
                                      !.shown = Append(@, on_progress(progress, ui.last_status)),
                                      !.last_status = next_last_status(progress, @)]
             ELSE ui' = [ui EXCEPT !.pc = "done",
                                   !.shown = @ \o on_pull_end(call.pc = "raised")]
    /\ UNCHANGED <<store, now, last, inp, saves, stream, chatVars, loop>>

\* pull_model_ui, lines 252-263: the message is sent and pull_model awaited
ModelsPull ==
    /\ ui.pc = "idle" /\ adapter.pc = "idle"
    /\ \E model \in Models, first \in FirstAnswers("pull_model"), second \in SecondAnswers :
          /\ ui' = [NoPull EXCEPT !.handler = "pull_model_ui", !.pc = "requested",
                                  !.model = model, !.shown = <<ShownRequested>>]
          /\ adapter' = [NoAdapterCall EXCEPT !.op = "pull_model", !.pc = "new",
                                              !.daemon = <<first, second>>]
    /\ UNCHANGED <<store, now, last, inp, saves, stream, chatVars, loop>>

\* pull_model_ui, lines 263-287: pull_model returned or raised
ModelsPullEnd ==
    /\ ui.handler = "pull_model_ui" /\ ui.pc = "requested"
    /\ LET r == pull_model(ui.model, adapter.daemon)
           taken == SubSeq(adapter.daemon, 1, r.requests)
       IN /\ adapter' = [adapter EXCEPT !.pc = r.end,
                                        !.daemon = SubSeq(@, r.requests + 1, Len(@)),
                                        !.requests = r.requests, !.taken = taken,
                                        !.failure = FirstFailure(taken),
                                        !.exc = r.exc, !.value = r.value]
          /\ ui' = [ui EXCEPT !.pc = "done", !.shown = @ \o on_pull_end(r.end = "raised")]
    /\ UNCHANGED <<store, now, last, inp, saves, stream, chatVars, loop>>

PullNext == ChatStartPull \/ ChatStartPullNext \/ ModelsPull \/ ModelsPullEnd

SpecPull == AdapterInit /\ [][PullNext]_vars

\* the positions of the terminal messages among what was shown
Terminals(shown) == { i \in 1..Len(shown) : shown[i].kind \in {"complete", "failed"} }

\* C15: a pull started by on_chat_start or by /models pull shows Requested,
\* then progress updates, then one terminal message: at most one terminal
\* message is ever shown and nothing after it; the handler is done exactly
\* when it is shown; whenever the daemon stream has ended or failed the
\* terminal message is there (completion iff the stream ended); and until
\* then the daemon still has its end or failure to deliver.
C15_PullStateMachine ==
    ui.handler # "none" =>
        /\ ui.shown[1] = ShownRequested
        /\ Cardinality(Terminals(ui.shown)) <= 1
        /\ \A i \in Terminals(ui.shown) : i = Len(ui.shown)
        /\ \A i \in 2..Len(ui.shown) : i \notin Terminals(ui.shown) => ui.shown[i].kind = "progress"
        /\ (ui.pc = "done") <=> (Terminals(ui.shown) # {})
        /\ adapter.pc \in {"returned", "raised"} =>
              /\ ui.pc = "done"
              /\ (ui.shown[Len(ui.shown)].kind = "complete") <=> (adapter.pc = "returned")
        /\ ui.pc # "done" =>
              /\ adapter.daemon # << >>
              /\ Len(ui.shown) = 1 + Len(adapter.yielded)

\* an auto-download that showed two progress updates and then failed
C15_Witness ==
    /\ ui.handler = "on_chat_start" /\ ui.pc = "done"
    /\ Len(ui.shown) = 4
    /\ ui.shown[2].kind = "progress" /\ ui.shown[3].kind = "progress"
    /\ ui.shown[4].kind = "failed"

-----------------------------------------------------------------------------
(* The handlers of the user interface that call the adapter, each run with *)
(* a daemon that answers, refuses the connection or reports an error; the  *)
(* download that on_chat_start starts goes on as in the pull above.  inp   *)
(* holds the handler's arguments and the daemon's answers.                 *)

SelectedModels == Models \cup {"gemma2"}

\* the daemon's answer to a call of the operation
AnswersTo(op) ==
    IF op = "chat_stream" THEN {StreamEnd} \cup DaemonErrors ELSE FirstAnswers(op)

HandlerArgs(handler, name, answers) == [handler |-> handler, model |-> name, answers |-> answers]

\* on_chat_start up to its welcome message or to the start of the download
ChatStart ==
    /\ ui.pc = "idle" /\ adapter.pc = "idle"
    /\ \E selected_model \in SelectedModels, answer \in AnswersTo("list_local_models"),
          script \in PullScripts :
          LET e == on_chat_start_listed(selected_model, answer)
          IN /\ ~e.pull => script = <<StreamEnd>>
             /\ inp' = HandlerArgs("on_chat_start", selected_model, <<answer>>)
             /\ ui' = [NoPull EXCEPT !.handler = "on_chat_start", !.pc = e.end,
                                     !.model = selected_model, !.shown = e.shown]
             /\ adapter' = IF e.pull
                           THEN [NoAdapterCall EXCEPT !.op = "pull_model_with_progress",
                                                      !.pc = "new", !.daemon = script]
                           ELSE [NoAdapterCall EXCEPT !.op = e.op, !.exc = e.exc,
                                                      !.pc = IF e.exc = "" THEN "returned"
                                                             ELSE "raised",
                                                      !.requests = e.calls]
    /\ UNCHANGED <<store, now, last, saves, stream, chatVars, loop>>

\* a whole run of one of the other handlers
HandlerRun ==
    /\ ui.pc = "idle" /\ adapter.pc = "idle"
    /\ \E handler \in UIHandlers \ {"on_chat_start"}, name \in SelectedModels,
          first \in AnswersTo("list_local_models") \cup AnswersTo("chat_stream"),
          second \in AnswersTo("delete_model") :
          LET e == handler_run(handler, name, <<first, second>>)
          IN /\ first \in AnswersTo(first_op(handler))
             /\ e.calls = 1 => second = Ok(<< >>)
             /\ inp' = HandlerArgs(handler, name, <<first, second>>)
             /\ ui' = [NoPull EXCEPT !.handler = handler, !.pc = e.end, !.model = name,
                                     !.shown = e.shown]
             /\ adapter' = [NoAdapterCall EXCEPT !.op = e.op, !.exc = e.exc,
                                                 !.pc = IF e.exc = "" THEN "returned"
                                                        ELSE "raised",
                                                 !.requests = e.calls]
    /\ UNCHANGED <<store, now, last, saves, stream, chatVars, loop>>

HandlersNext == ChatStart \/ HandlerRun \/ ChatStartPullNext

SpecHandlers == AdapterInit /\ [][HandlersNext]_vars

\* C32: DaemonUnavailable never escapes a handler of the user interface:
\* when an adapter operation called from a handler has raised
\* OllamaNotRunningError, the handler has ended normally and the last thing
\* it showed is a message about the failure.
C32_DaemonUnavailableShown ==
    (ui.handler \in UIHandlers /\ adapter.exc = "OllamaNotRunningError") =>
        /\ ui.pc = "done"
        /\ ui.shown # << >>
        /\ ui.shown[Len(ui.shown)].kind \in {"not_running", "error", "failed"}

\* delete_model_ui listed the models, found the one to delete, and the
\* daemon was gone when it asked for the deletion
C32_Witness ==
    /\ ui.handler = "delete_model_ui" /\ ui.pc = "done"
    /\ adapter.op = "delete_model" /\ adapter.exc = "OllamaNotRunningError"
    /\ adapter.requests = 2
    /\ ui.shown = <<Message("not_running")>>

\* the names of the installed models that on_chat_start was given
InstalledNames == model_names(list_local_models(<<inp.answers[1]>>).value)

\* C40: on_chat_start starts a pull whenever the daemon answered and the
\* selected model is not among the installed names, also when no model is
\* installed; it starts none when the model is installed or the daemon is
\* not reachable.
C40_PullWheneverMissing ==
    ui.handler = "on_chat_start" =>
        (adapter.op = "pull_model_with_progress"
            <=> /\ inp.answers[1].kind = "ok"
                /\ pull_when_missing(ui.model, InstalledNames))

-----------------------------------------------------------------------------
(* on_message from its first line: a message is a command of the system    *)
(* or of the model management, or a turn of the chat.  A text is a         *)
(* sequence of tokens; an argument of a command is one token.              *)

RECURSIVE split(_)

\* str.split(): the maximal runs of tokens that are not whitespace
split(text) ==
    LET rest == lstrip(text)
        n == IF \E i \in 1..Len(rest) : rest[i] \in Whitespace
             THEN (CHOOSE i \in 1..Len(rest) :
                      /\ rest[i] \in Whitespace
                      /\ \A j \in 1..(i - 1) : rest[j] \notin Whitespace) - 1
             ELSE Len(rest)
    IN IF rest = << >> THEN << >>
       ELSE <<SubSeq(rest, 1, n)>> \o split(SubSeq(rest, n + 1, Len(rest)))

route_exact(content) ==
    IF lower_text(content) \in {<<"/exit">>, <<"/quit">>, <<"/system">>} THEN "system"
    ELSE IF content = <<"/models">> THEN "models"
    ELSE "chat"

\* chat.py lines 276-286: where on_message sends the stripped content
route(content) ==
    IF \/ lower_text(content) \in {<<"/exit">>, <<"/quit">>}
       \/ IsPrefix(<<"/system">>, lower_text(content))
    THEN "system"
    ELSE IF IsPrefix(<<"/models">>, content) THEN "models"
    ELSE "chat"

\* system_actions.py lines 28-40: what the system command shows
handle_system_command(command) ==
    IF lower_text(strip(command)) \in {<<"/exit">>, <<"/quit">>} THEN "goodbye" ELSE "system_help"

\* a command that shows a message and calls nothing
ShowOnly(kind) == [handler |-> "show", name |-> "", shown |-> kind]

\* a command that goes to a handler of the model management
GoTo(handler, name) == [handler |-> handler, name |-> name, shown |-> ""]

\* model_management.py lines 37-85: where the /models command goes
handle_model_command(command) ==
    LET parts == split(strip(command))
        action == IF Len(parts) < 2 THEN << >> ELSE lower_text(parts[2])
        arg == IF Len(parts) > 2 THEN Head(parts[3]) ELSE ""
    IN CASE Len(parts) < 2 -> ShowOnly("models_help")
         [] action = <<"list">> -> GoTo("list_local_models_ui", "")
         [] action = <<"browse">> -> GoTo("browse_cloud_models_ui", arg)
         [] action \in {<<"pull">>, <<"delete">>, <<"search">>} /\ Len(parts) < 3
              -> ShowOnly("usage")
         [] action = <<"pull">> -> GoTo("pull_model_ui", arg)
         [] action = <<"delete">> -> GoTo("delete_model_ui", arg)
         [] action = <<"search">> -> GoTo("search_models_ui", arg)
         [] OTHER -> ShowOnly("models_help")

\* the messages the user sends
MessageTexts ==
    { <<"/exit">>, <<" ", "/QUIT", "\n">>, <<"/system", " ", "help">>, <<"/System", "x">>,
      <<"/models">>, <<"/models", "x", " ", "list">>, <<"/models", " ", "list">>,
      <<"/models", " ", "PULL", " ", "llama3">>, <<"/models", " ", "pull">>,
      <<"/models", " ", "delete", " ", "llama3">>, <<"/models", " ", "browse">>,
      <<"/models", " ", "search", " ", "llama3">>,
      <<"/Models", " ", "list">>, <<"hi">> }

\* the number of messages of a conversation
MaxMessages == 2

CommandsInit ==
    /\ InitStore
    /\ inp = [content |-> << >>, seq |-> 0]
    /\ saves = NoSaves
    /\ stream = NoStream
    /\ AdapterIdle
    /\ sess \in ChatSessions
    /\ lists = [l \in ListIds |-> << >>]
    /\ runs = [r \in Runs |-> IdleRun]

\* lines 276-280: the system command handler shows its message
SystemCommand(content) ==
    /\ ui' = [NoPull EXCEPT !.handler = "handle_system_command", !.pc = "done",
                            !.shown = <<Message(handle_system_command(content))>>]
    /\ UNCHANGED <<adapter, chatVars>>

\* the daemon's answers to the calls of the handler of a model command
CommandAnswers(c) ==
    IF c.handler \in UIHandlers
    THEN { <<first, second>> :
             first \in AnswersTo(first_op(c.handler)),
             second \in IF c.handler = "delete_model_ui" THEN AnswersTo("delete_model")
                        ELSE {Ok(<< >>)} }
    ELSE { <<Ok(<< >>), Ok(<< >>)>> }

\* lines 283-286: the model command runs its handler to the end
ModelCommand(c, answers) ==
    IF c.handler \in UIHandlers
    THEN LET e == handler_run(c.handler, c.name, answers)
         IN /\ ui' = [NoPull EXCEPT !.handler = c.handler, !.pc = e.end, !.model = c.name,
                                    !.shown = e.shown]
            /\ adapter' = [NoAdapterCall EXCEPT !.op = e.op, !.exc = e.exc,
                                                !.pc = IF e.exc = "" THEN "returned"
                                                       ELSE "raised",
                                                !.requests = e.calls]
            /\ UNCHANGED chatVars
    ELSE /\ ui' = [NoPull EXCEPT !.handler = c.handler, !.pc = "done", !.model = c.name,
                                 !.shown = <<Message(IF c.handler = "show" THEN c.shown
                                                     ELSE "cloud_models")>>]
         /\ UNCHANGED <<adapter, chatVars>>

\* lines 288-313: the chat path, up to the first await of the run, with
\* the placeholder of the answer shown
ChatTurn(r, content) ==
    /\ runs[r].pc \in {"idle", "done"}
    /\ Len(lists[sess.messages]) < 2 * MaxTurns
    /\ LET fresh == lists[sess.messages] = << >>
           h == IF fresh THEN r ELSE sess.messages
       IN /\ lists' = IF fresh THEN [lists EXCEPT ![r] = << >>] ELSE lists
          /\ runs' = [runs EXCEPT ![r] = on_message_start(sess, lists, h, content)]
    /\ ui' = [NoPull EXCEPT !.handler = "on_message", !.pc = "streaming",
                            !.shown = <<Message("placeholder")>>]
    /\ adapter' = NoAdapterCall
    /\ UNCHANGED sess

\* on_message, lines 232-313, for a message without files, sent when no
\* run is in progress
OnMessage ==
    /\ inp.seq < MaxMessages
    /\ \A r \in ChatRuns : runs[r].pc \in {"idle", "done"}
    /\ \E raw \in MessageTexts :
          LET content == strip(raw)
          IN /\ inp' = [content |-> content, seq |-> inp.seq + 1]
             /\ CASE route(content) = "system" -> SystemCommand(content)
                  [] route(content) = "models" ->
                        \E answers \in CommandAnswers(handle_model_command(content)) :
                            ModelCommand(handle_model_command(content), answers)
                  [] OTHER -> ChatTurn(1, content)
    /\ UNCHANGED <<store, now, last, saves, stream, loop>>

\* a step of the stream of the chat run
ChatTurnNext ==
    /\ \E r \in ChatRuns : OnMessageNext(r)

CommandsNext == OnMessage \/ ChatTurnNext

SpecCommands == CommandsInit /\ [][CommandsNext]_vars

\* the stripped text is a command of the system
IsSystemCommand(content) ==
    content \in {<<"/exit">>, <<"/quit">>} \/ IsPrefix(<<"/system">>, content)

\* the stripped text is a command of the model management
IsModelCommand(content) == IsPrefix(<<"/models">>, content)

\* C38: a message that is /exit, /quit, or starts with /system or /models
\* goes to its command handler and not to the chat: the run creates no chat
\* request, and leaves the history, the session and the store as they were;
\* the system command handler takes the system commands and the model
\* command handler the others.
C38_CommandsBypassChat ==
    [][(inp'.seq # inp.seq
          /\ (IsSystemCommand(inp'.content) \/ IsModelCommand(inp'.content)))
       => /\ runs' = runs /\ lists' = lists /\ sess' = sess
          /\ store' = store
          /\ adapter'.op \notin {"chat_stream"}
          /\ IsSystemCommand(inp'.content) <=> ui'.handler = "handle_system_command"]_vars

\* after a recorded turn of the chat, /models delete llama3 has deleted the
\* model and the history still holds the turn
C38_Witness ==
    /\ inp.content = <<"/models", " ", "delete", " ", "llama3">>
    /\ ui.handler = "delete_model_ui" /\ adapter.op = "delete_model"
    /\ adapter.pc = "returned"
    /\ Len(lists[sess.messages]) = 2
    /\ \A r \in ChatRuns : runs[r].pc = "done" /\ runs[r].request # None

-----------------------------------------------------------------------------
(* The event loop of the process: the handlers of two sessions are         *)
(* coroutines of one thread.  A handler takes a step only while that       *)
(* thread is not inside a blocking call; a daemon wait dispatched to a     *)
(* worker thread leaves it free, a daemon wait made in the coroutine       *)
(* itself holds it until the daemon answers.                               *)

\* the adapter operations that wait for the daemon: for the next chat
\* fragment, for a synchronous pull, for the next progress update
BlockingOps == {"chat_stream", "pull_model", "pull_model_with_progress"}

\* the event-loop thread is not inside a blocking call
LoopFree == \A h \in Handlers : ~(loop[h].pc = "waiting" /\ loop[h].thread = "loop")

\* a handler calls an adapter operation
HandlerStart(h) ==
    /\ LoopFree
    /\ loop[h].pc = "idle"
    /\ \E op \in BlockingOps :
          loop' = [loop EXCEPT ![h] = [NoHandler EXCEPT !.op = op, !.pc = "ready",
                                                       !.point = first_point(op)]]
    /\ UNCHANGED <<store, now, last, inp, saves, stream, chatVars, adapter, ui>>

\* the operation reaches its next daemon wait
HandlerWait(h) ==
    /\ LoopFree
    /\ loop[h].pc = "ready"
    /\ loop' = [loop EXCEPT ![h].pc = "waiting",
                            ![h].thread = wait_thread(loop[h].op, loop[h].point)]
    /\ UNCHANGED <<store, now, last, inp, saves, stream, chatVars, adapter, ui>>

\* the daemon answers the wait of h: a stream has more to deliver, or the
\* operation is over; the result of a worker thread is taken by the
\* coroutine once the event-loop thread is free
DaemonAnswers(h) ==
    /\ loop[h].pc = "waiting"
    /\ loop[h].thread = "worker" => LoopFree
    /\ \E more \in BOOLEAN :
          loop' = [loop EXCEPT
                     ![h].pc = IF more /\ loop[h].op # "pull_model" /\ loop[h].waits + 1 < MaxWaits
                               THEN "ready" ELSE "done",
                     ![h].point = IF loop[h].op = "pull_model" THEN @ ELSE "next",
                     ![h].thread = "none",
                     ![h].waits = @ + 1]
    /\ UNCHANGED <<store, now, last, inp, saves, stream, chatVars, adapter, ui>>

\* the handler returns
HandlerEnd(h) ==
    /\ LoopFree
    /\ loop[h].pc = "done"
    /\ loop' = [loop EXCEPT ![h] = NoHandler]
    /\ UNCHANGED <<store, now, last, inp, saves, stream, chatVars, adapter, ui>>

LoopNext ==
    \E h \in Handlers : HandlerStart(h) \/ HandlerWait(h) \/ DaemonAnswers(h) \/ HandlerEnd(h)

SpecLoop == AdapterInit /\ [][LoopNext]_vars

\* C16: while a handler waits for the daemon, the event-loop thread is free,
\* so that a handler of another session can take its next step.
C16_DaemonWaitsOffLoop ==
    \A h \in Handlers : loop[h].pc = "waiting" => LoopFree
====
